---------------------------- MODULE Spec2Model ----------------------------
(***************************************************************************)
(* KeroTrack: oil tank ingestion (oil_mqtt_transform.py + oil_recalc.py),  *)
(* weekly notifier (notifier.py) and analysis run (oil_analysis.py).       *)
(*                                                                         *)
(* Units (all quantities are integers):                                    *)
(*   volume        centilitres (cl), 100 cl = 1 L; values stored by the    *)
(*                 code with round(x, 1) are multiples of 10 cl            *)
(*   length        centimetres                                             *)
(*   temperature   degrees Celsius                                         *)
(*   time          hours since an arbitrary epoch; 24 hours = 1 day        *)
(*   rates         millilitres per day (0.001 L/day)                       *)
(*   price         1/100 pence per litre                                   *)
(* Python floats are modelled by floor division at these resolutions.      *)
(* An optional value (Python None) is the empty tuple, a present value v   *)
(* is the one-element tuple <<v>>.                                         *)
(***************************************************************************)
EXTENDS Integers, Sequences, FiniteSets

VARIABLES
    readings,     \* the readings table of the SQLite database, in insertion order
    hdd_data,     \* the hdd_data table: a function from day number to HDD
    now,          \* wall clock (hours) read by the analysis and notifier runs
    fuel_rate,    \* boiler.fuel_rate of config.yaml (ml per hour)
    tank_capacity, \* tank.capacity of config.yaml as the ingestion process loaded it
    month,        \* calendar month of `now` (1..12)
    price_cache,  \* lru_cache of fetch_ppl: whether it was called, and the result it keeps
    published,    \* payloads published on the retained level topic, oldest first
    frame,        \* local variables of the last process() call that returned output
    pc,           \* position of the notifier / analysis run
    stats,        \* return value of get_weekly_stats
    body,         \* the parts of the text send_notification builds
    result,       \* return value of analyze_data
    monthly_stats, \* return value of get_monthly_summary, None when main did not call it
    fetch_log,    \* outcome of each fetch_ppl call that asked the price site, oldest first
    userdata,     \* the MQTT client's userdata: one_shot and message_received
    timeout,      \* seconds left in the wait loop of one-shot mode
    exit_status,  \* status the one-shot process exited with, None while it runs
    handled       \* how on_message ended for each message, oldest first

vars == << readings, hdd_data, now, fuel_rate, tank_capacity, month, price_cache, published,
           frame, pc, stats, body, result,
           monthly_stats, fetch_log, userdata, timeout, exit_status, handled >>

None == << >>
Some(v) == << v >>
IsNone(x) == x = << >>
Get(x) == x[1]

Max(a, b) == IF a >= b THEN a ELSE b
Min(a, b) == IF a <= b THEN a ELSE b
Abs(a) == IF a >= 0 THEN a ELSE -a

\* round(x, 1) of a volume held in centilitres: the nearest multiple of 10 cl
Round1(x) == ((x + 5) \div 10) * 10

HoursPerDay == 24

DayOf(t) == t \div HoursPerDay

DaysPerMonth == 30                 \* the calendar of the model: months of 30 days from day 0

\* strftime('%Y-%m-01'): the first day of the month a time falls in
MonthStart(t) == (DayOf(t) \div DaysPerMonth) * DaysPerMonth

(***************************************************************************)
(* Configuration (config.yaml is not part of the sources: the values are   *)
(* those of the deployment the specification describes)                    *)
(***************************************************************************)
TANK_CAPACITY == 122500            \* tank.capacity, 1225 L
HEIGHT == 125                      \* tank.height, cm
REFERENCE_TEMP == 15               \* analysis.reference_temperature
THERMAL_EXPANSION_COEFF == 7       \* analysis.thermal_expansion_coefficient, 0.0007 per degree
COEFF_SCALE == 10000               \* scale of THERMAL_EXPANSION_COEFF
REFILL_THRESHOLD == 10000          \* detection.refill_threshold, 100 L
LEAK_THRESHOLD == 10000            \* detection.leak_threshold, 100 L
LEAK_RATE_PER_DAY == 1000          \* detection.leak_rate_per_day, 10 L/day
AIR_GAP_TOLERANCE == 5             \* the literal 5 (cm) of detect_refill

(***************************************************************************)
(* oil_recalc.py: the normaliser and the event classifier                  *)
(***************************************************************************)
\* mutant: depth_cm taken as the oil depth instead of the air gap
calculate_compensated_volume_depth(air_gap_cm, temperature) ==
    LET oil_height == air_gap_cm
        raw_volume == (oil_height * TANK_CAPACITY) \div HEIGHT
        compensated_volume ==
            (raw_volume * COEFF_SCALE)
                \div (COEFF_SCALE + THERMAL_EXPANSION_COEFF * (temperature - REFERENCE_TEMP))
    IN  Min(compensated_volume, TANK_CAPACITY)

calculate_compensated_volume(air_gap_cm, temperature) ==
    LET oil_height == HEIGHT - air_gap_cm
        raw_volume == (oil_height * TANK_CAPACITY) \div HEIGHT
        compensated_volume ==
            (raw_volume * COEFF_SCALE)
                \div (COEFF_SCALE + THERMAL_EXPANSION_COEFF * (temperature - REFERENCE_TEMP))
    IN  Min(compensated_volume, TANK_CAPACITY)

\* mutant: no air-gap corroboration
detect_refill_volume_only(current_litres, previous_litres, current_air_gap, previous_air_gap) ==
    IF IsNone(previous_litres) \/ IsNone(previous_air_gap)
    THEN "n"
    ELSE IF current_litres - Get(previous_litres) >= REFILL_THRESHOLD THEN "y" ELSE "n"

detect_refill(current_litres, previous_litres, current_air_gap, previous_air_gap) ==
    IF IsNone(previous_litres) \/ IsNone(previous_air_gap)
    THEN "n"
    ELSE LET volume_increase == current_litres - Get(previous_litres)
             air_gap_decrease == Get(previous_air_gap) - current_air_gap
         IN  IF volume_increase >= REFILL_THRESHOLD /\ air_gap_decrease > AIR_GAP_TOLERANCE
             THEN "y" ELSE "n"

\* mutant: the loss compared with the expected loss over any elapsed time
detect_leak_any_elapsed(current_litres, previous_litres, current_date, previous_date) ==
    IF IsNone(previous_litres) \/ IsNone(previous_date)
    THEN "n"
    ELSE LET time_difference == current_date - Get(previous_date)
             actual_loss == Get(previous_litres) - current_litres
         IN  IF actual_loss * HoursPerDay > LEAK_RATE_PER_DAY * time_difference
                /\ actual_loss >= LEAK_THRESHOLD
             THEN "y" ELSE "n"

\* mutant: the size of the change taken as the loss, whatever its direction
detect_leak_abs_loss(current_litres, previous_litres, current_date, previous_date) ==
    IF IsNone(previous_litres) \/ IsNone(previous_date)
    THEN "n"
    ELSE LET time_difference == current_date - Get(previous_date)
             actual_loss == Abs(Get(previous_litres) - current_litres)
         IN  IF time_difference > HoursPerDay
             THEN "n"
             ELSE IF actual_loss * HoursPerDay > LEAK_RATE_PER_DAY * time_difference
                     /\ actual_loss >= LEAK_THRESHOLD
                  THEN "y" ELSE "n"

detect_leak(current_litres, previous_litres, current_date, previous_date) ==
    IF IsNone(previous_litres) \/ IsNone(previous_date)
    THEN "n"
    ELSE LET time_difference == current_date - Get(previous_date)
             actual_loss == Get(previous_litres) - current_litres
         IN  IF time_difference > HoursPerDay
             THEN "n"
             \* actual_loss > leak_rate * time_difference / 1 day, cross-multiplied
             ELSE IF actual_loss * HoursPerDay > LEAK_RATE_PER_DAY * time_difference
                     /\ actual_loss >= LEAK_THRESHOLD
                  THEN "y" ELSE "n"

\* calculate_ppl: linear interpolation between the 500 L and the 900 L price
calculate_ppl(litres, prices) ==
    IF litres >= 50000 /\ litres <= 90000
    THEN prices.p500 - (((prices.p500 - prices.p900) * ((litres - 50000) \div 100)) \div 400)
    ELSE IF litres < 50000 THEN prices.p500 ELSE prices.p900

\* the row of the readings table with the greatest date (ORDER BY date DESC LIMIT 1);
\* among equal dates SQLite returns one of them: the last inserted is taken
LatestIndex(table) ==
    CHOOSE i \in 1..Len(table) :
        \A j \in 1..Len(table) :
            table[j].date < table[i].date \/ (table[j].date = table[i].date /\ j <= i)

get_latest_reading(table) == IF Len(table) = 0 THEN None ELSE Some(table[LatestIndex(table)])

\* process(reading, mode) for a well-formed payload: the output dictionary
\* (the fields this model follows) and the locals the classifier was called with
ProcessFrame(msg, table, prices) ==
    LET current_litres == calculate_compensated_volume(msg.depth_cm, msg.temperature_C)
        prev_reading == get_latest_reading(table)
        prev_litres == IF IsNone(prev_reading) THEN None ELSE Some(Get(prev_reading).litres_remaining)
        prev_air_gap == IF IsNone(prev_reading) THEN None ELSE Some(Get(prev_reading).air_gap_cm)
        prev_date == IF IsNone(prev_reading) THEN None ELSE Some(Get(prev_reading).date)
        litres_used == IF IsNone(prev_reading) THEN 0
                       ELSE Max(0, Get(prev_litres) - current_litres)
        current_ppl == IF IsNone(prices) THEN None
                       ELSE Some(calculate_ppl(current_litres, Get(prices)))
    IN  [ current_litres |-> current_litres,
          current_air_gap |-> msg.depth_cm,
          current_date |-> msg.time,
          prev_litres |-> prev_litres,
          prev_air_gap |-> prev_air_gap,
          prev_date |-> prev_date,
          litres_used |-> litres_used,
          current_ppl |-> current_ppl ]

ProcessOutput(msg, f) ==
    [ date |-> f.current_date,
      temperature |-> msg.temperature_C,
      litres_remaining |-> Round1(f.current_litres),
      litres_used_since_last |-> Round1(f.litres_used),
      \* round(current_litres / TANK_CAPACITY * 100, 1), in tenths of a percent
      percentage_remaining |-> (f.current_litres * 2000 + TANK_CAPACITY) \div (2 * TANK_CAPACITY),
      air_gap_cm |-> f.current_air_gap,
      current_ppl |-> f.current_ppl,
      \* pence; "0.00" when current_ppl is None or 0
      cost_used |-> IF IsNone(f.current_ppl) \/ f.current_ppl = Some(0) THEN 0
                    ELSE (f.litres_used * Get(f.current_ppl)) \div 10000,
      cost_to_fill |-> IF IsNone(f.current_ppl) \/ f.current_ppl = Some(0) THEN 0
                       ELSE ((TANK_CAPACITY - f.current_litres) * Get(f.current_ppl)) \div 10000,
      refill_detected |-> detect_refill(f.current_litres, f.prev_litres,
                                        f.current_air_gap, f.prev_air_gap),
      leak_detected |-> detect_leak(f.current_litres, f.prev_litres,
                                    f.current_date, f.prev_date) ]

(***************************************************************************)
(* oil_mqtt_transform.py: the ingestion process                            *)
(***************************************************************************)
MaxMessages == 2                   \* messages handled in one run of the model

AirGaps == {1, 30, 40, 130}        \* depth_cm of a payload; 130 is beyond the tank height
Temps == {5, 15}                   \* temperature_C of a payload
MsgTimes == {1, 25}                \* time of a payload: 25 is a day after 1, more than a day after 0
PriceTable == [p500 |-> 6000, p900 |-> 5800]

Messages == [time : MsgTimes, depth_cm : AirGaps, temperature_C : Temps]

\* a stored row that did not come from this run (an earlier run, the web
\* application's edit form, correct_readings.py)
Row(date, litres, air_gap, refill) ==
    [ date |-> date, temperature |-> REFERENCE_TEMP, litres_remaining |-> litres,
      litres_used_since_last |-> 0,
      percentage_remaining |-> (litres * 2000 + TANK_CAPACITY) \div (2 * TANK_CAPACITY),
      air_gap_cm |-> air_gap, current_ppl |-> None, cost_used |-> 0, cost_to_fill |-> 0,
      refill_detected |-> refill, leak_detected |-> "n" ]

SeedRows == { Row(0, l, g, "n") : l \in {78100, 93100}, g \in {32, 40} }

Idle == "idle"

InitIngest ==
    /\ readings \in {<< >>} \cup { << r >> : r \in SeedRows }
    /\ hdd_data = << >>
    /\ now = 0
    /\ fuel_rate = 0
    /\ tank_capacity = Some(TANK_CAPACITY)
    /\ month = 1
    /\ price_cache = [fetched |-> FALSE, value |-> None]
    /\ published = << >>
    /\ frame = None
    /\ pc = Idle
    /\ stats = None
    /\ body = None
    /\ result = None
    /\ monthly_stats = None
    /\ fetch_log = << >>
    /\ userdata = [one_shot |-> FALSE, message_received |-> FALSE]
    /\ timeout = 0
    /\ exit_status = None
    /\ handled = << >>

\* fetch_ppl under lru_cache(maxsize=1): the site is asked on the first call only
fetch_ppl(cache, site) == IF cache.fetched THEN cache.value ELSE site

\* what a fetch_ppl call that asks the site and returns adds to the record of
\* calls; a call served from the cache adds nothing
FetchReturned(site) ==
    IF price_cache.fetched THEN fetch_log
    ELSE Append(fetch_log, IF IsNone(site) THEN "none" ELSE "prices")

\* the network thread delivers messages while the process waits for them: in
\* continuous mode always, in one-shot mode until client.loop_stop()
Listening == pc \in {Idle, "waiting", "stopping"}

\* the end of on_message (lines 139-147): in one-shot mode message_received is
\* set on the normal path and in the except clause alike
Handled(outcome) ==
    /\ handled' = Append(handled, outcome)
    /\ userdata' = IF userdata.one_shot THEN [userdata EXCEPT !.message_received = TRUE]
                   ELSE userdata

\* on_message for a payload process() accepts: process, insert, publish
OnMessage(msg, site, db_ok) ==
    /\ Listening
    /\ Len(handled) < MaxMessages
    /\ LET prices == fetch_ppl(price_cache, site)
           f == ProcessFrame(msg, readings, prices)
           processed_data == ProcessOutput(msg, f)
       IN  /\ price_cache' = [fetched |-> TRUE, value |-> prices]
           /\ frame' = Some(f)
           /\ readings' = IF db_ok THEN Append(readings, processed_data) ELSE readings
           /\ published' = Append(published, Some(processed_data))
    /\ fetch_log' = FetchReturned(site)
    /\ Handled("processed")
    /\ UNCHANGED << hdd_data, now, fuel_rate, tank_capacity,
                    month, pc, stats, body, result,
                    monthly_stats, timeout, exit_status >>

\* on_message for a payload process() fails on (it logs and returns None):
\* nothing is inserted, and client.publish is still called, with None. The
\* failure is in the payload's time, depth_cm or temperature_C (lines 255-257,
\* before fetch_ppl is called) or in its missing id (line 308, after fetch_ppl
\* returned).
OnMessageProcessFails(stage, site) ==
    /\ Listening
    /\ Len(handled) < MaxMessages
    /\ published' = Append(published, None)
    /\ price_cache' = IF stage = "output"
                      THEN [fetched |-> TRUE, value |-> fetch_ppl(price_cache, site)]
                      ELSE price_cache
    /\ fetch_log' = IF stage = "output" THEN FetchReturned(site) ELSE fetch_log
    /\ Handled("process_returned_none")
    /\ UNCHANGED << readings, hdd_data, now, fuel_rate, tank_capacity,
                    month, frame,
                    pc, stats, body, result,
                    monthly_stats, timeout, exit_status >>

\* on_message for a well-formed payload when the fetch_ppl call raises: the
\* price cell of the page is empty, split()[0] raises IndexError, which the
\* except clause of fetch_ppl (RequestException, ValueError) does not catch.
\* lru_cache keeps no result of a call that raised; process() catches the
\* exception and returns None, which on_message publishes.
OnMessageFetchRaises ==
    /\ Listening
    /\ Len(handled) < MaxMessages
    /\ ~price_cache.fetched
    /\ fetch_log' = Append(fetch_log, "raised")
    /\ published' = Append(published, None)
    /\ Handled("process_returned_none")
    /\ UNCHANGED << readings, hdd_data, now, fuel_rate, tank_capacity,
                    month, price_cache, frame,
                    pc, stats, body, result,
                    monthly_stats, timeout, exit_status >>

\* on_message for a message it cannot decode (json.loads fails, or the payload
\* has no 'model' key): the except clause logs the error; nothing is processed,
\* stored or published
OnMessageRaises ==
    /\ Listening
    /\ Len(handled) < MaxMessages
    /\ Handled("raised")
    /\ UNCHANGED << readings, hdd_data, now, fuel_rate, tank_capacity,
                    month, price_cache, published, frame,
                    pc, stats, body, result,
                    monthly_stats, fetch_log, timeout, exit_status >>

NextIngest ==
    \/ \E msg \in Messages, site \in {None, Some(PriceTable)}, db_ok \in BOOLEAN :
            OnMessage(msg, site, db_ok)
    \/ \E stage \in {"payload", "output"}, site \in {None, Some(PriceTable)} :
            OnMessageProcessFails(stage, site)
    \/ OnMessageFetchRaises
    \/ OnMessageRaises

Spec == InitIngest /\ [][NextIngest]_vars

(***************************************************************************)
(* Ingestion: the claims                                                   *)
(***************************************************************************)
Outputs == { Get(published[i]) : i \in { k \in 1..Len(published) : ~IsNone(published[k]) } }

\* C1: every reading process() normalises has 0 <= litres_remaining <= TANK_CAPACITY
C1_VolumeWithinTank ==
    \A o \in Outputs : 0 <= o.litres_remaining /\ o.litres_remaining <= TANK_CAPACITY

\* the upper bound alone, which calculate_compensated_volume does enforce
C1_VolumeAtMostCapacity ==
    \A o \in Outputs : o.litres_remaining <= TANK_CAPACITY

LastOutput == Get(published[Len(published)])
Classified == ~IsNone(frame) /\ Len(published) > 0 /\ ~IsNone(published[Len(published)])
             /\ ~IsNone(Get(frame).prev_litres)
VolumeIncrease == Get(frame).current_litres - Get(Get(frame).prev_litres)
AirGapDecrease == Get(Get(frame).prev_air_gap) - Get(frame).current_air_gap

\* C2: refill = 'y' only when the volume increase is >= refill_threshold and the
\* air gap decreased by more than 5 cm; +150 L with a 10 cm drop is 'y', +150 L
\* with a 2 cm drop is 'n' (refill_threshold = 100 L)
C2_RefillNeedsAirGapDrop ==
    Classified =>
        /\ LastOutput.refill_detected = "y"
             => (VolumeIncrease >= REFILL_THRESHOLD /\ AirGapDecrease > 5)
        /\ (VolumeIncrease = 15000 /\ AirGapDecrease = 10) => LastOutput.refill_detected = "y"
        /\ (VolumeIncrease = 15000 /\ AirGapDecrease = 2) => LastOutput.refill_detected = "n"

C2_Witness_Jump150Drop2 ==
    Classified /\ VolumeIncrease = 15000 /\ AirGapDecrease = 2
               /\ LastOutput.refill_detected = "n"

C2_Reach_Jump150Drop10 ==
    Classified /\ VolumeIncrease = 15000 /\ AirGapDecrease = 10
               /\ LastOutput.refill_detected = "y"

\* C8: at a fixed temperature the volume never increases as the air gap increases
C8_VolumeMonotoneInAirGap ==
    \A o1 \in Outputs, o2 \in Outputs :
        (o1.temperature = o2.temperature /\ o1.air_gap_cm <= o2.air_gap_cm)
            => o1.litres_remaining >= o2.litres_remaining

C8_Witness_TwoAirGaps ==
    \E o1 \in Outputs, o2 \in Outputs :
        /\ o1.temperature = o2.temperature
        /\ o1.air_gap_cm < o2.air_gap_cm
        /\ o1.litres_remaining > o2.litres_remaining

(***************************************************************************)
(* notifier.py: the period usage aggregator and the weekly summary         *)
(***************************************************************************)
\* ORDER BY date ASC (rows of equal date keep their insertion order)
RECURSIVE SortByDate(_)
SortByDate(rows) ==
    IF Len(rows) <= 1 THEN rows
    ELSE LET m == CHOOSE i \in 1..Len(rows) :
                      \A j \in 1..Len(rows) :
                          rows[i].date < rows[j].date \/ (rows[i].date = rows[j].date /\ i <= j)
             rest == [k \in 1..(Len(rows) - 1) |-> IF k < m THEN rows[k] ELSE rows[k + 1]]
         IN  << rows[m] >> \o SortByDate(rest)

\* WHERE date BETWEEN start_date AND end_date ORDER BY date ASC
fetch_readings_between(table, start_date, end_date) ==
    SortByDate(SelectSeq(table, LAMBDA r : start_date <= r.date /\ r.date <= end_date))

\* the loop of calculate_refill_aware_usage from pair i on, acc the accumulators
RECURSIVE UsageLoop(_, _, _, _)
UsageLoop(rows, i, refill_threshold, acc) ==
    IF i > Len(rows) THEN acc
    ELSE LET prev == rows[i - 1]
             curr == rows[i]
             delta == curr.litres_remaining - prev.litres_remaining
             decrease == prev.litres_remaining - curr.litres_remaining
         IN  IF curr.refill_detected = "y" \/ delta >= refill_threshold
             THEN UsageLoop(rows, i + 1, refill_threshold,
                            [acc EXCEPT !.had_refill = TRUE,
                                        !.refill_volume = @ + (IF delta > 0 THEN delta ELSE 0)])
             ELSE UsageLoop(rows, i + 1, refill_threshold,
                            [acc EXCEPT !.total_decrease =
                                            @ + (IF decrease > 0 THEN decrease ELSE 0)])

RECURSIVE SumPpl(_, _)
SumPpl(rows, i) ==
    IF i > Len(rows) THEN [sum |-> 0, count |-> 0]
    ELSE LET rest == SumPpl(rows, i + 1)
         IN  IF IsNone(rows[i].current_ppl) THEN rest
             ELSE [sum |-> rest.sum + Get(rows[i].current_ppl), count |-> rest.count + 1]

average_ppl(rows) ==
    LET p == SumPpl(rows, 1) IN IF p.count > 0 THEN p.sum \div p.count ELSE 0

\* mutant: the end-to-end difference whether or not the window holds a refill
calculate_refill_aware_usage_end_to_end(rows, refill_threshold) ==
    IF Len(rows) < 2
    THEN [usage_litres |-> None, had_refill |-> FALSE, refill_volume |-> 0, average_ppl |-> 0]
    ELSE LET acc == UsageLoop(rows, 2, refill_threshold,
                              [total_decrease |-> 0, refill_volume |-> 0, had_refill |-> FALSE])
         IN  [ usage_litres |->
                   Some(Max(rows[1].litres_remaining - rows[Len(rows)].litres_remaining, 0)),
               had_refill |-> acc.had_refill,
               refill_volume |-> acc.refill_volume,
               average_ppl |-> average_ppl(rows) ]

calculate_refill_aware_usage(rows, refill_threshold) ==
    IF Len(rows) < 2
    THEN [usage_litres |-> None, had_refill |-> FALSE, refill_volume |-> 0, average_ppl |-> 0]
    ELSE LET acc == UsageLoop(rows, 2, refill_threshold,
                              [total_decrease |-> 0, refill_volume |-> 0, had_refill |-> FALSE])
             start_litres == rows[1].litres_remaining
             end_litres == rows[Len(rows)].litres_remaining
             usage_without_refill == start_litres - end_litres
             usage_litres == IF acc.had_refill THEN acc.total_decrease ELSE usage_without_refill
         IN  [ usage_litres |-> Some(Max(usage_litres, 0)),
               had_refill |-> acc.had_refill,
               refill_volume |-> acc.refill_volume,
               average_ppl |-> average_ppl(rows) ]

\* the result of format_diff: None, "No change", or the signed difference;
\* threshold in the unit of the operands
format_diff(current, previous, threshold) ==
    IF IsNone(current) \/ IsNone(previous) THEN [kind |-> "None", diff |-> 0]
    ELSE LET diff == Get(current) - Get(previous)
         IN  IF Abs(diff) < threshold THEN [kind |-> "No change", diff |-> 0]
             ELSE [kind |-> "diff", diff |-> diff]

\* usage (cl) at a price (1/100 pence per litre), in pence: usage * ppl / 100 pounds
Cost(usage, ppl) == (usage * ppl) \div 10000
\* usage / tank_capacity * 100, in 1/100 percent
PctOfTank(usage) == (usage * 1000) \div (TANK_CAPACITY \div 10)

\* mutant: a missing usage counted as 0 litres
weekly_cost_none_as_zero(usage_stats) ==
    IF IsNone(usage_stats.usage_litres) THEN Some(0)
    ELSE Some(Cost(Get(usage_stats.usage_litres), usage_stats.average_ppl))

weekly_cost(usage_stats) ==
    IF IsNone(usage_stats.usage_litres) THEN None
    ELSE Some(Cost(Get(usage_stats.usage_litres), usage_stats.average_ppl))

weekly_pct_of_tank(usage_stats) ==
    IF TANK_CAPACITY # 0 /\ ~IsNone(usage_stats.usage_litres)
    THEN Some(PctOfTank(Get(usage_stats.usage_litres)))
    ELSE None

DaysPerWeek == 7
Week == DaysPerWeek * HoursPerDay

current_week_readings(table, t) == fetch_readings_between(table, t - Week, t)
prev_week_readings(table, t) == fetch_readings_between(table, t - 2 * Week, t - Week)

get_weekly_stats(table, t) ==
    LET current_usage_stats ==
            calculate_refill_aware_usage(current_week_readings(table, t), REFILL_THRESHOLD)
        prev_usage_stats ==
            calculate_refill_aware_usage(prev_week_readings(table, t), REFILL_THRESHOLD)
    IN  [ weekly_usage_l |-> current_usage_stats.usage_litres,
          weekly_cost |-> weekly_cost(current_usage_stats),
          weekly_pct_of_tank |-> weekly_pct_of_tank(current_usage_stats),
          weekly_refill |-> current_usage_stats.had_refill,
          weekly_refill_volume |-> current_usage_stats.refill_volume,
          prev_week_usage_l |-> prev_usage_stats.usage_litres,
          prev_week_cost |-> weekly_cost(prev_usage_stats),
          prev_week_pct_of_tank |-> weekly_pct_of_tank(prev_usage_stats) ]

\* get_monthly_summary: the previous full calendar month, from its first day
\* 00:00:00 to its last day 23:59:59 (stored dates are whole hours)
get_monthly_summary(table, t) ==
    LET first_of_this_month == MonthStart(t) * HoursPerDay
        start_date == first_of_this_month - DaysPerMonth * HoursPerDay
        end_date == first_of_this_month - 1
        rows == fetch_readings_between(table, start_date, end_date)
    IN  IF Len(rows) < 2 THEN None
        ELSE LET usage_stats == calculate_refill_aware_usage(rows, REFILL_THRESHOLD)
                 start_litres == rows[1].litres_remaining
                 end_litres == rows[Len(rows)].litres_remaining
                 total_refill_volume == usage_stats.refill_volume
                 raw_usage == (start_litres - end_litres) + total_refill_volume
                 total_usage == IF raw_usage < 0 THEN 0 ELSE raw_usage
             IN  Some([ total_usage |-> total_usage,
                        percentage_used |-> IF TANK_CAPACITY > 0 THEN PctOfTank(total_usage) ELSE 0,
                        approx_cost |-> Cost(total_usage, usage_stats.average_ppl),
                        refill_volume |-> total_refill_volume ])

\* the pieces of the message body send_notification formats from the stats
notification_body(st) ==
    LET trend_litres == format_diff(st.weekly_usage_l, st.prev_week_usage_l, 10)
        cost_trend == format_diff(st.weekly_cost, st.prev_week_cost, 10)
        pct_trend == format_diff(st.weekly_pct_of_tank, st.prev_week_pct_of_tank, 5)
        trend_segments == { seg \in {trend_litres, cost_trend, pct_trend} : seg.kind = "diff" }
    IN  [ trend_litres |-> trend_litres,
          cost_trend |-> cost_trend,
          pct_trend |-> pct_trend,
          trend_line |-> IF trend_segments = {} THEN "No change" ELSE "vs last week",
          weekly_usage_line |->
              IF IsNone(st.weekly_usage_l) THEN [text |-> "N/A"]
              ELSE [ text |-> "usage",
                     usage |-> Get(st.weekly_usage_l),
                     cost_str |-> IF IsNone(st.weekly_cost) THEN "N/A" ELSE "cost",
                     pct_str |-> IF IsNone(st.weekly_pct_of_tank) THEN "N/A" ELSE "pct" ] ]

MaxRows == 3                       \* rows of the readings table a notifier run starts from

DateSlots == {24, 168, 240, 312}   \* dates of stored rows; 168 is exactly one week before the run
NotifyTimes == {336}               \* datetime.now() of the notifier run
Litres == {90000, 100000, 101000, 110000}
Ppls == {None, Some(6000)}

NotifierRow(d, l, f, p) == [Row(d, l, 30, f) EXCEPT !.current_ppl = p]

\* the tables with n rows of strictly increasing date
TablesOfLen(n) ==
    { t \in [1..n -> { NotifierRow(d, l, f, p) :
                         d \in DateSlots, l \in Litres, f \in {"y", "n"}, p \in Ppls }] :
        \A i \in 1..(n - 1) : t[i].date < t[i + 1].date }

InitNotifier ==
    /\ \E n \in 0..MaxRows : readings \in TablesOfLen(n)
    /\ hdd_data = << >>
    /\ now \in NotifyTimes
    /\ fuel_rate = 0
    /\ tank_capacity = Some(TANK_CAPACITY)
    /\ month = 1
    /\ price_cache = [fetched |-> FALSE, value |-> None]
    /\ published = << >>
    /\ frame = None
    /\ pc = "start"
    /\ stats = None
    /\ body = None
    /\ result = None
    /\ monthly_stats = None
    /\ fetch_log = << >>
    /\ userdata = [one_shot |-> FALSE, message_received |-> FALSE]
    /\ timeout = 0
    /\ exit_status = None
    /\ handled = << >>

\* main: stats = get_weekly_stats(conn, logger, config)
GetWeeklyStats ==
    /\ pc = "start"
    /\ stats' = Some(get_weekly_stats(readings, now))
    /\ pc' = "stats"
    /\ UNCHANGED << readings, hdd_data, now, fuel_rate, tank_capacity,
                    month, price_cache, published,
                    frame, body, result,
                    monthly_stats, fetch_log, userdata, timeout, exit_status, handled >>

\* main: on the first Sunday of a month, or in test mode,
\* monthly_stats = get_monthly_summary(conn, logger, config); None otherwise
MonthlySummary(first_sunday_or_test) ==
    /\ pc = "stats"
    /\ monthly_stats' = IF first_sunday_or_test THEN get_monthly_summary(readings, now) ELSE None
    /\ pc' = "monthly"
    /\ UNCHANGED << readings, hdd_data, now, fuel_rate, tank_capacity,
                    month, price_cache, published,
                    frame, stats, body, result,
                    fetch_log, userdata, timeout, exit_status, handled >>

\* main: send_notification(stats, config, logger, test_mode, monthly_stats);
\* the last-month section of the text prints the fields of monthly_stats
SendNotification ==
    /\ pc = "monthly"
    /\ body' = Some(notification_body(Get(stats)))
    /\ pc' = "sent"
    /\ UNCHANGED << readings, hdd_data, now, fuel_rate, tank_capacity,
                    month, price_cache, published,
                    frame, stats, result,
                    monthly_stats, fetch_log, userdata, timeout, exit_status, handled >>

NextNotifier ==
    \/ GetWeeklyStats
    \/ \E first_sunday_or_test \in BOOLEAN : MonthlySummary(first_sunday_or_test)
    \/ SendNotification

SpecNotifier == InitNotifier /\ [][NextNotifier]_vars

MonthlyNotifyTimes == {768}        \* a run on day 3 of the second month: the stored rows are last month's

MaxMonthRows == 4                  \* rows of the readings table a monthly summary starts from

\* a notifier run early in the month after the one the stored rows fall in
InitMonthly ==
    /\ \E n \in 0..MaxMonthRows : readings \in TablesOfLen(n)
    /\ hdd_data = << >>
    /\ now \in MonthlyNotifyTimes
    /\ fuel_rate = 0
    /\ tank_capacity = Some(TANK_CAPACITY)
    /\ month = 2
    /\ price_cache = [fetched |-> FALSE, value |-> None]
    /\ published = << >>
    /\ frame = None
    /\ pc = "start"
    /\ stats = None
    /\ body = None
    /\ result = None
    /\ monthly_stats = None
    /\ fetch_log = << >>
    /\ userdata = [one_shot |-> FALSE, message_received |-> FALSE]
    /\ timeout = 0
    /\ exit_status = None
    /\ handled = << >>

SpecMonthly == InitMonthly /\ [][NextNotifier]_vars

(***************************************************************************)
(* Notifier: the claims                                                    *)
(***************************************************************************)
StatsReady == pc \in {"stats", "monthly", "sent"} /\ ~IsNone(stats)
CurrentWeek == current_week_readings(readings, now)
PrevWeek == prev_week_readings(readings, now)

\* pair (i-1, i) of a window is a refill: explicit flag on the later reading, or
\* a volume increase of at least the refill threshold
IsRefillPair(w, i) ==
    w[i].refill_detected = "y" \/ w[i].litres_remaining - w[i - 1].litres_remaining >= REFILL_THRESHOLD

RECURSIVE SumPositiveDecreases(_, _)
SumPositiveDecreases(w, pairs) ==
    IF pairs = {} THEN 0
    ELSE LET i == CHOOSE k \in pairs : TRUE
         IN  Max(w[i - 1].litres_remaining - w[i].litres_remaining, 0)
                 + SumPositiveDecreases(w, pairs \ {i})

\* the usage the claim states for a window of at least 2 readings
StatedUsage(w) ==
    LET refills == { i \in 2..Len(w) : IsRefillPair(w, i) }
    IN  IF refills # {}
        THEN SumPositiveDecreases(w, (2..Len(w)) \ refills)
        ELSE Max(w[1].litres_remaining - w[Len(w)].litres_remaining, 0)

LitresOf(w) == [i \in 1..Len(w) |-> w[i].litres_remaining]
FlagsOf(w) == [i \in 1..Len(w) |-> w[i].refill_detected]

\* C3: with at least 2 readings, usage is the sum of the positive decreases over
\* the non-refill pairs if any pair is a refill, else first - last floored at 0;
\* [1000, 1100 (refill), 900] with refill_threshold 100 gives 200 L
C3_RefillAwareUsage ==
    StatsReady =>
        /\ Len(CurrentWeek) >= 2 => Get(stats).weekly_usage_l = Some(StatedUsage(CurrentWeek))
        /\ Len(PrevWeek) >= 2 => Get(stats).prev_week_usage_l = Some(StatedUsage(PrevWeek))
        /\ (LitresOf(CurrentWeek) = << 100000, 110000, 90000 >>
             /\ FlagsOf(CurrentWeek) = << "n", "y", "n" >>)
               => Get(stats).weekly_usage_l = Some(20000)

C3_Witness_RefillThenDrop ==
    /\ StatsReady
    /\ LitresOf(CurrentWeek) = << 100000, 110000, 90000 >>
    /\ FlagsOf(CurrentWeek) = << "n", "y", "n" >>
    /\ Get(stats).weekly_usage_l = Some(20000)

UsageOf(w) == Get(calculate_refill_aware_usage(w, REFILL_THRESHOLD).usage_litres)
SplitAt(w, b) == UsageOf(SubSeq(w, 1, b)) + UsageOf(SubSeq(w, b, Len(w)))

\* C4: usage over [a..c] equals usage over [a..b] plus usage over [b..c] for
\* every interior reading b that is not a refill point
C4_UsageAdditiveUnderSplit ==
    StatsReady =>
        \A b \in 2..(Len(CurrentWeek) - 1) :
            ~IsRefillPair(CurrentWeek, b)
                => Get(stats).weekly_usage_l = Some(SplitAt(CurrentWeek, b))

\* what does hold: additivity for windows whose non-refill pairs never increase
C4_AdditiveWhenNonRefillPairsDecrease ==
    StatsReady =>
        \A b \in 2..(Len(CurrentWeek) - 1) :
            (\A i \in 2..Len(CurrentWeek) :
                 IsRefillPair(CurrentWeek, i)
                 \/ CurrentWeek[i].litres_remaining <= CurrentWeek[i - 1].litres_remaining)
                => Get(stats).weekly_usage_l = Some(SplitAt(CurrentWeek, b))

\* C9: fewer than 2 readings give usage None, and cost, percentage of tank and
\* trend are None / "N/A" whenever the usage they are computed from is None
C9_NoArithmeticOnMissingUsage ==
    /\ StatsReady =>
        LET st == Get(stats)
        IN  /\ Len(CurrentWeek) < 2 => IsNone(st.weekly_usage_l)
            /\ Len(PrevWeek) < 2 => IsNone(st.prev_week_usage_l)
            /\ IsNone(st.weekly_usage_l)
                 => IsNone(st.weekly_cost) /\ IsNone(st.weekly_pct_of_tank)
            /\ IsNone(st.prev_week_usage_l)
                 => IsNone(st.prev_week_cost) /\ IsNone(st.prev_week_pct_of_tank)
    /\ (pc = "sent" /\ ~IsNone(body)) =>
        LET st == Get(stats)
            b == Get(body)
        IN  /\ (IsNone(st.weekly_usage_l) \/ IsNone(st.prev_week_usage_l))
                 => /\ b.trend_litres.kind = "None"
                    /\ b.cost_trend.kind = "None"
                    /\ b.pct_trend.kind = "None"
            /\ IsNone(st.weekly_usage_l) => b.weekly_usage_line.text = "N/A"

C9_Witness_OneReadingThisWeek ==
    /\ pc = "sent"
    /\ Len(CurrentWeek) = 1
    /\ Len(PrevWeek) >= 2
    /\ IsNone(Get(stats).weekly_usage_l)
    /\ ~IsNone(Get(stats).prev_week_usage_l)
    /\ Get(body).weekly_usage_line.text = "N/A"

(***************************************************************************)
(* oil_analysis.py: the consumption estimator and the projection           *)
(***************************************************************************)
\* get_last_refill_reading: WHERE refill_detected = 'y' ORDER BY date DESC LIMIT 1
get_last_refill_reading(table) ==
    get_latest_reading(SelectSeq(table, LAMBDA r : r.refill_detected = "y"))

\* get_readings_last_n_days: WHERE date >= now - n days ORDER BY date
get_readings_last_n_days(table, t, days) ==
    SortByDate(SelectSeq(table, LAMBDA r : r.date >= t - days * HoursPerDay))

\* get_hdd_data: the rows of hdd_data with start_date <= date <= end_date
get_hdd_data(hdd, start_date, end_date) ==
    [d \in { k \in DOMAIN hdd : start_date <= k /\ k <= end_date } |-> hdd[d]]

\* heating hours per month of get_seasonal_heating_factor, and their maximum
heating_hours == << 78, 43, 43, 21, 3, 0, 0, 0, 0, 5, 29, 37 >>
max_hours == 78

WEEKLY_HOT_WATER_SESSIONS == 10    \* 1 * 4 weekday + 2 * 3 weekend sessions
MIN_WEEKLY_READINGS == 10          \* len(weekly_readings) >= 10
CAP_WITH_HEATING == 400            \* projected_cap when today_HDD > 0
CAP_WITHOUT_HEATING == 700         \* projected_cap otherwise

\* estimated_daily_hot_water_consumption (ml/day):
\* sessions * 0.5 h * FUEL_RATE / 7 * 1.1
estimated_daily_hot_water_consumption(rate) ==
    (WEEKLY_HOT_WATER_SESSIONS * rate * 11) \div (2 * DaysPerWeek * 10)

\* mutant: the measured weekly rate without the hot-water floor
avg_daily_consumption_l_unfloored(weekly_readings, daily_hw_l, next_month) ==
    IF Len(weekly_readings) >= MIN_WEEKLY_READINGS
    THEN LET earliest == weekly_readings[1]
             latest == weekly_readings[Len(weekly_readings)]
             weekly_consumption == earliest.litres_remaining - latest.litres_remaining
         IN  (weekly_consumption * 10) \div DaysPerWeek
    ELSE (daily_hw_l * heating_hours[next_month]) \div max_hours

\* lines 457-514: the blended daily rate (ml/day) analyze_data reports and
\* projects with; adjusted_daily_consumption is assigned in both branches here,
\* so the value lines 438-441 gave it is never read
avg_daily_consumption_l(weekly_readings, daily_hw_l, next_month) ==
    LET adjusted_daily_consumption ==
            IF Len(weekly_readings) >= MIN_WEEKLY_READINGS
            THEN LET earliest == weekly_readings[1]
                     latest == weekly_readings[Len(weekly_readings)]
                     raw == earliest.litres_remaining - latest.litres_remaining
                     weekly_consumption ==
                         IF raw < 0 \/ (TANK_CAPACITY # 0 /\ raw > TANK_CAPACITY) THEN 0 ELSE raw
                 IN  Max((weekly_consumption * 10) \div DaysPerWeek, daily_hw_l)
            ELSE \* estimated_daily_hot_water_consumption * 7 * seasonal_factor / 7
                 Max((daily_hw_l * heating_hours[next_month]) \div max_hours, daily_hw_l)
    IN  Max(adjusted_daily_consumption, daily_hw_l)

\* mutant: one ceiling for every projection
projected_cap_single(today_HDD) == CAP_WITHOUT_HEATING

projected_cap(today_HDD) == IF today_HDD > 0 THEN CAP_WITH_HEATING ELSE CAP_WITHOUT_HEATING

\* lines 516-523: days remaining in 1/100 day, or infinity
estimated_days_remaining(litres_remaining, rate, today_HDD) ==
    IF rate > 0
    THEN [kind |-> "number",
          value |-> Min((litres_remaining * 1000) \div rate, projected_cap(today_HDD) * 100)]
    ELSE [kind |-> "inf", value |-> 0]

\* mutant: infinity written to the record as it is
report_days_inf(days) ==
    IF days.kind = "inf" THEN [kind |-> "inf", value |-> 0]
    ELSE [kind |-> "number", value |-> (days.value + 5) \div 10]

\* line 532: round(estimated_days_remaining, 1) (in 1/10 day), or "Unknown"
report_days(days) ==
    IF days.kind = "inf" THEN [kind |-> "Unknown", value |-> 0]
    ELSE [kind |-> "number", value |-> (days.value + 5) \div 10]

\* lines 520, 523, 533: the day now + days falls on, or "Unknown"
report_empty_date(t, days) ==
    IF days.kind = "inf" THEN [kind |-> "Unknown", value |-> 0]
    ELSE [kind |-> "date", value |-> (t * 100 + days.value * HoursPerDay) \div (100 * HoursPerDay)]

\* round(x, 2) of a rate held in ml/day, in cl/day
Round2(x) == (x + 5) \div 10

MIN_HEATING_L == 500               \* 0.5 L/day
MAX_HEATING_L == 15000             \* 15.0 L/day

clamp(value, min_value, max_value) == Max(min_value, Min(value, max_value))

\* hdd_data.get(day, 0)
HddOf(hdd, day) == IF day \in DOMAIN hdd THEN hdd[day] ELSE 0

\* get_readings_for_period: WHERE date BETWEEN start AND end ORDER BY date
get_readings_for_period(table, start_date, end_date) ==
    SortByDate(SelectSeq(table, LAMBDA r : start_date <= r.date /\ r.date <= end_date))

\* calculate_total_consumption: the positive drops, a rise beyond the refill
\* threshold skipped (as is every other rise)
RECURSIVE calculate_total_consumption_from(_, _, _)
calculate_total_consumption_from(rows, refill_threshold, i) ==
    IF i > Len(rows) THEN 0
    ELSE LET used == rows[i - 1].litres_remaining - rows[i].litres_remaining
         IN  (IF used >= -refill_threshold /\ used > 0 THEN used ELSE 0)
                 + calculate_total_consumption_from(rows, refill_threshold, i + 1)

calculate_total_consumption(rows, refill_threshold) ==
    calculate_total_consumption_from(rows, refill_threshold, 2)

\* compute_usage_stats. The day counts are kept in hours and the usage totals
\* in ml x 24, so that every sum of the loop is exact:
\*   per_day_use * days_delta          = Max(used, daily_hw_l * days_delta)  on a zero-HDD day
\*   heating_component * days_delta    = Max(used - daily_hw_l * days_delta, 0) on a heating day
\* mutant: the loop without the hot-water floor of a zero-HDD day
RECURSIVE compute_usage_stats_from_unfloored(_, _, _, _, _, _)
compute_usage_stats_from_unfloored(rows, hdd, daily_hw_l, refill_threshold, i, acc) ==
    IF i > Len(rows) THEN acc
    ELSE LET prev == rows[i - 1]
             curr == rows[i]
             used == prev.litres_remaining - curr.litres_remaining
             days_delta == curr.date - prev.date
             curr_hdd == HddOf(hdd, DayOf(curr.date))
             used24 == used * 10 * HoursPerDay
             heating == IF curr_hdd > 0 THEN Max(used24 - daily_hw_l * days_delta, 0) ELSE 0
             next == IF used < -refill_threshold \/ used <= 0 \/ days_delta <= 0
                     THEN acc
                     ELSE [ total_days |-> acc.total_days + days_delta,
                            adjusted_usage_total |-> acc.adjusted_usage_total + used24,
                            heating_usage_total |-> acc.heating_usage_total + heating,
                            heat_day_count |-> acc.heat_day_count
                                                + (IF curr_hdd = 0 THEN 0 ELSE days_delta),
                            hw_day_count |-> acc.hw_day_count
                                                + (IF curr_hdd = 0 THEN days_delta ELSE 0) ]
         IN  compute_usage_stats_from_unfloored(rows, hdd, daily_hw_l, refill_threshold,
                                                i + 1, next)

RECURSIVE compute_usage_stats_from(_, _, _, _, _, _)
compute_usage_stats_from(rows, hdd, daily_hw_l, refill_threshold, i, acc) ==
    IF i > Len(rows) THEN acc
    ELSE LET prev == rows[i - 1]
             curr == rows[i]
             used == prev.litres_remaining - curr.litres_remaining
             days_delta == curr.date - prev.date
             curr_hdd == HddOf(hdd, DayOf(curr.date))
             used24 == used * 10 * HoursPerDay
             usage == IF curr_hdd = 0 THEN Max(used24, daily_hw_l * days_delta) ELSE used24
             heating == IF curr_hdd > 0 THEN Max(used24 - daily_hw_l * days_delta, 0) ELSE 0
             next == IF used < -refill_threshold \/ used <= 0 \/ days_delta <= 0
                     THEN acc
                     ELSE [ total_days |-> acc.total_days + days_delta,
                            adjusted_usage_total |-> acc.adjusted_usage_total + usage,
                            heating_usage_total |-> acc.heating_usage_total + heating,
                            heat_day_count |-> acc.heat_day_count
                                                + (IF curr_hdd = 0 THEN 0 ELSE days_delta),
                            hw_day_count |-> acc.hw_day_count
                                                + (IF curr_hdd = 0 THEN days_delta ELSE 0) ]
         IN  compute_usage_stats_from(rows, hdd, daily_hw_l, refill_threshold, i + 1, next)

compute_usage_stats(rows, hdd, daily_hw_l, refill_threshold) ==
    compute_usage_stats_from(rows, hdd, daily_hw_l, refill_threshold, 2,
        [ total_days |-> 0, adjusted_usage_total |-> 0, heating_usage_total |-> 0,
          heat_day_count |-> 0, hw_day_count |-> 0 ])

\* compute_heating_usage: heating_usage_total / heat_day_count (ml/day), or None
compute_heating_usage(table, hdd, t, days, daily_hw_l, refill_threshold) ==
    LET rows == get_readings_last_n_days(table, t, days + 1)
        window == get_hdd_data(hdd, DayOf(t - days * HoursPerDay), DayOf(t))
        st == compute_usage_stats(rows, window, daily_hw_l, refill_threshold)
    IN  IF Len(rows) < 2 THEN None
        ELSE IF st.heat_day_count > 0
             THEN Some(st.heating_usage_total \div st.heat_day_count)
             ELSE None

\* get_smoothed_daily_usage: the per-day uses (ml/day) of the pairs it keeps
RECURSIVE daily_usages_from(_, _, _, _, _)
daily_usages_from(rows, hdd, daily_hw_l, refill_threshold, i) ==
    IF i > Len(rows) THEN << >>
    ELSE LET prev == rows[i - 1]
             curr == rows[i]
             used == prev.litres_remaining - curr.litres_remaining
             days_delta == curr.date - prev.date
             rest == daily_usages_from(rows, hdd, daily_hw_l, refill_threshold, i + 1)
         IN  IF used < -refill_threshold \/ used < 0 \/ days_delta <= 0
             THEN rest
             ELSE LET per_day_use == (used * 10 * HoursPerDay) \div days_delta
                  IN  << IF HddOf(hdd, DayOf(curr.date)) = 0
                         THEN Max(per_day_use, daily_hw_l) ELSE per_day_use >> \o rest

RECURSIVE SumSeq(_)
SumSeq(q) == IF Len(q) = 0 THEN 0 ELSE Head(q) + SumSeq(Tail(q))

get_smoothed_daily_usage(table, hdd, t, days, refill_threshold, daily_hw_l) ==
    LET rows == get_readings_last_n_days(table, t, days + 1)
        window == get_hdd_data(hdd, DayOf(t - days * HoursPerDay), DayOf(t))
        daily_usages == daily_usages_from(rows, window, daily_hw_l, refill_threshold, 2)
    IN  IF Len(rows) < 2 \/ Len(daily_usages) = 0 THEN None
        ELSE Some(SumSeq(daily_usages) \div Len(daily_usages))

PREFERRED_BASELINE_DAYS == 60
MINIMUM_BASELINE_DAYS == 30
RECURSIVE SumHdd(_, _)
SumHdd(hdd, days) ==
    IF days = {} THEN 0
    ELSE LET d == CHOOSE x \in days : TRUE IN hdd[d] + SumHdd(hdd, days \ {d})

\* lines 406-415: the refill, the consumption since, and the analysis window
analysis_window(last_refill, latest, t) ==
    LET refill_date == last_refill.date
        days_since_refill == (t - refill_date) \div HoursPerDay
        available_days == IF days_since_refill > 0 THEN days_since_refill ELSE 0
        lookback_days == IF available_days > 0
                         THEN Min(PREFERRED_BASELINE_DAYS, Max(MINIMUM_BASELINE_DAYS, available_days))
                         ELSE MINIMUM_BASELINE_DAYS
        analysis_start == Max(refill_date, t - lookback_days * HoursPerDay)
    IN  [ refill_date |-> refill_date,
          days_since_refill |-> days_since_refill,
          total_consumption |-> last_refill.litres_remaining - latest.litres_remaining,
          lookback_days |-> lookback_days,
          analysis_start |-> analysis_start,
          \* analysis_period_days, in hours
          analysis_period_days |-> Max(t - analysis_start, HoursPerDay) ]

\* lines 432-441: adjusted_daily_consumption as the analysis window gives it
\* (ml/day), before lines 457-472 assign it again
adjusted_period_rate(table, hdd, t, w, daily_hw_l) ==
    LET analysis_readings == get_readings_for_period(table, w.analysis_start, t)
        analysis_hdd_data == get_hdd_data(hdd, DayOf(w.analysis_start), DayOf(t))
        counted == calculate_total_consumption(analysis_readings, REFILL_THRESHOLD)
        since_refill == counted <= 0 /\ w.total_consumption > 0 /\ w.days_since_refill > 0
        period_consumption == IF since_refill THEN w.total_consumption ELSE counted
        analysis_period_days == IF since_refill
                                THEN Max(w.days_since_refill, 1) * HoursPerDay
                                ELSE w.analysis_period_days
        usage_stats == compute_usage_stats(analysis_readings, analysis_hdd_data,
                                           daily_hw_l, REFILL_THRESHOLD)
    IN  IF usage_stats.total_days > 0
        THEN usage_stats.adjusted_usage_total \div usage_stats.total_days
        ELSE Max((period_consumption * 10 * HoursPerDay) \div analysis_period_days, daily_hw_l)

\* lines 498-504: the heating component scaled to today's HDD and clamped
heating_l_today(heating_l, recent_hdd_data, today_HDD) ==
    LET total == SumHdd(recent_hdd_data, DOMAIN recent_hdd_data)
        count == Cardinality(DOMAIN recent_hdd_data)
        \* heating_l * clamp(today_HDD / avg_7day_HDD, 0.6, 1.6)
        scaled == IF total <= 0 THEN heating_l
                  ELSE IF today_HDD * count * 10 < 6 * total THEN (heating_l * 6) \div 10
                  ELSE IF today_HDD * count * 10 > 16 * total THEN (heating_l * 16) \div 10
                  ELSE (heating_l * today_HDD * count) \div total
    IN  IF today_HDD = 0 THEN 0
        ELSE IF heating_l > 0 THEN clamp(scaled, MIN_HEATING_L, MAX_HEATING_L)
        ELSE heating_l

analyze_data(table, hdd, t, m, rate) ==
    LET latest0 == get_latest_reading(table)
        last_refill == get_last_refill_reading(table)
    IN  IF IsNone(latest0) \/ IsNone(last_refill) THEN None
        ELSE LET w == analysis_window(Get(last_refill), Get(latest0), t)
                 daily_hw_l == estimated_daily_hot_water_consumption(rate)
                 \* HDD-based calculations
                 monthly_hdd == get_hdd_data(hdd, MonthStart(w.refill_date), MonthStart(t))
                 total_hdd == SumHdd(monthly_hdd, DOMAIN monthly_hdd)
                 consumption_per_hdd == IF total_hdd > 0
                                        THEN (w.total_consumption * 100) \div total_hdd ELSE 0
                 next_month == IF m < 12 THEN m + 1 ELSE 1
                 upcoming_hdd == HddOf(monthly_hdd,
                                       MonthStart(t) + (next_month - m) * DaysPerMonth)
                 weekly_readings == get_readings_last_n_days(table, t, DaysPerWeek)
                 \* latest is rebound to weekly_readings[-1] in the measured branch
                 latest == IF Len(weekly_readings) >= MIN_WEEKLY_READINGS
                           THEN weekly_readings[Len(weekly_readings)]
                           ELSE Get(latest0)
                 avg == avg_daily_consumption_l(weekly_readings, daily_hw_l, next_month)
                 \* heating detection using recent behaviour
                 heating_7d == compute_heating_usage(table, hdd, t, DaysPerWeek,
                                                     daily_hw_l, REFILL_THRESHOLD)
                 heating_long == compute_heating_usage(table, hdd, t, w.lookback_days,
                                                       daily_hw_l, REFILL_THRESHOLD)
                 heating_estimate ==
                     IF ~IsNone(heating_7d) /\ ~IsNone(heating_long)
                     THEN (65 * Get(heating_7d) + 35 * Get(heating_long)) \div 100
                     ELSE IF ~IsNone(heating_7d) THEN Get(heating_7d)
                     ELSE IF ~IsNone(heating_long) THEN Get(heating_long)
                     ELSE 0
                 smoothed == get_smoothed_daily_usage(table, hdd, t, DaysPerWeek,
                                                      REFILL_THRESHOLD, daily_hw_l)
                 \* adjusted_daily_consumption is what lines 457-472 left in it
                 adjusted_recent_consumption == IF IsNone(smoothed) THEN avg ELSE Get(smoothed)
                 surplus_l == Max(adjusted_recent_consumption - daily_hw_l, 0)
                 heating_l0 == IF heating_estimate > 0 THEN heating_estimate ELSE surplus_l
                 recent_hdd_data == get_hdd_data(hdd, DayOf(t) - DaysPerWeek, DayOf(t))
                 today_HDD == HddOf(recent_hdd_data, DayOf(t))
                 heating_l == heating_l_today(heating_l0, recent_hdd_data, today_HDD)
                 estimated_daily_consumption_hdd == Max(daily_hw_l + heating_l, daily_hw_l)
                 days == estimated_days_remaining(latest.litres_remaining, avg, today_HDD)
             IN  Some([ latest_analysis_date |-> t,
                        days_since_refill |-> w.days_since_refill,
                        total_consumption_since_refill |-> w.total_consumption,
                        avg_daily_consumption_l |-> Round2(avg),
                        estimated_days_remaining |-> report_days(days),
                        estimated_empty_date |-> report_empty_date(t, days),
                        consumption_per_hdd_l |-> consumption_per_hdd,
                        upcoming_month_hdd |-> upcoming_hdd,
                        estimated_daily_consumption_hdd_l |-> Round2(estimated_daily_consumption_hdd),
                        estimated_daily_hot_water_consumption_l |-> Round2(daily_hw_l),
                        estimated_daily_heating_consumption_l |-> Round2(heating_l),
                        seasonal_heating_factor |-> (heating_hours[next_month] * 100) \div max_hours,
                        remaining_days_empty_hdd |-> report_days(days),
                        remaining_date_empty_hdd |-> report_empty_date(t, days) ])

MaxReadings == 11                  \* rows of the readings table an analysis run starts from

Spacings == {12, 24}               \* hours between consecutive stored readings
Drops == {0, 800}                  \* litres_remaining lost from one reading to the next
StartLitres == {100000}            \* litres_remaining of the first stored reading
RefillJumps == {30000}             \* litres a recorded refill adds
FuelRates == {0, 2, 2000}          \* boiler.fuel_rate
Months == {5, 10, 12}
NowOffsets == {0, 12}              \* hours from the last stored reading to the run

\* a stored series: n readings `spacing` hours apart, losing `drop` each, with a
\* refill (flagged 'y') at reading refill_at, or none (refill_at = 0)
Series(n, spacing, drop, refill_at, start, jump) ==
    [i \in 1..n |->
        Row((i - 1) * spacing,
            start - (i - 1) * drop
                + (IF refill_at > 1 /\ i >= refill_at THEN jump ELSE 0),
            30,
            IF i = refill_at THEN "y" ELSE "n")]

HddTables(today) ==
    { << >>, [d \in {today} |-> 0], [d \in {today} |-> 120], [d \in {today - 1} |-> 80],
      [d \in {today - 1, today} |-> IF d = today THEN 120 ELSE 80],
      [d \in {today - 1, today} |-> IF d = today THEN 10 ELSE 400],
      [d \in {today - 1, today} |-> IF d = today THEN 400 ELSE 10] }

MaxAfterRefill == 2                \* rows stored after the second refill of a CycleSeries

\* a stored series holding a whole refill cycle: a refill (flagged 'y') on day 0,
\* a reading ten days later 80 L lower, a second refill (flagged 'y') a day
\* after it, and k later readings
CycleSeries(k, spacing, drop, start, jump) ==
    << Row(0, start, 30, "y"),
       Row(10 * HoursPerDay, start - 8000, 37, "n"),
       Row(11 * HoursPerDay, start - 8000 + jump, 10, "y") >>
    \o [i \in 1..k |-> Row(11 * HoursPerDay + i * spacing, start - 8000 + jump - i * drop, 10, "n")]

InitAnalysis ==
    /\ \/ \E n \in 0..MaxReadings, spacing \in Spacings, drop \in Drops :
            \E refill_at \in 0..n, offset \in NowOffsets, start \in StartLitres, jump \in RefillJumps :
               /\ readings = Series(n, spacing, drop, refill_at, start, jump)
               /\ now = (IF n = 0 THEN 0 ELSE (n - 1) * spacing) + offset
       \/ \E k \in 0..MaxAfterRefill, spacing \in Spacings, drop \in Drops :
            \E offset \in NowOffsets, start \in StartLitres, jump \in RefillJumps :
               /\ readings = CycleSeries(k, spacing, drop, start, jump)
               /\ now = readings[Len(readings)].date + offset
    /\ hdd_data \in HddTables(DayOf(now))
    /\ fuel_rate \in FuelRates
    /\ tank_capacity = Some(TANK_CAPACITY)
    /\ month \in Months
    /\ price_cache = [fetched |-> FALSE, value |-> None]
    /\ published = << >>
    /\ frame = None
    /\ pc = "start"
    /\ stats = None
    /\ body = None
    /\ result = None
    /\ monthly_stats = None
    /\ fetch_log = << >>
    /\ userdata = [one_shot |-> FALSE, message_received |-> FALSE]
    /\ timeout = 0
    /\ exit_status = None
    /\ handled = << >>

\* __main__: result = analyze_data(conn)
AnalyzeData ==
    /\ pc = "start"
    /\ result' = analyze_data(readings, hdd_data, now, month, fuel_rate)
    /\ pc' = "done"
    /\ UNCHANGED << readings, hdd_data, now, fuel_rate, tank_capacity,
                    month, price_cache, published,
                    frame, stats, body,
                    monthly_stats, fetch_log, userdata, timeout, exit_status, handled >>

\* __main__: if result: save_result_to_db(conn, result); publish_to_mqtt(result).
\* publish_to_mqtt returns without publishing when the broker cannot be reached
\* within its timeout. The analysis_results row save_result_to_db writes is not
\* read back by any value analyze_data returns.
PublishToMqtt(connected) ==
    /\ pc = "done"
    /\ ~IsNone(result)
    /\ published' = IF connected THEN Append(published, Get(result)) ELSE published
    /\ pc' = "exit"
    /\ UNCHANGED << readings, hdd_data, now, fuel_rate, tank_capacity,
                    month, price_cache, frame,
                    stats, body, result,
                    monthly_stats, fetch_log, userdata, timeout, exit_status, handled >>

\* __main__: else: "Analysis could not be completed due to insufficient data."
InsufficientData ==
    /\ pc = "done"
    /\ IsNone(result)
    /\ pc' = "exit"
    /\ UNCHANGED << readings, hdd_data, now, fuel_rate, tank_capacity,
                    month, price_cache, published,
                    frame, stats, body, result,
                    monthly_stats, fetch_log, userdata, timeout, exit_status, handled >>

MaxElapsed == 84                   \* hours after the last stored reading up to which runs are followed
RunDelays == {72}                  \* hours from one run of the script to the next

\* the script is started again later, over the same database: a new process,
\* with result = None and a later datetime.now()
RunAgain(delay) ==
    /\ pc = "exit"
    /\ Len(readings) > 0
    /\ now + delay <= readings[Len(readings)].date + MaxElapsed
    /\ now' = now + delay
    /\ result' = None
    /\ pc' = "start"
    /\ UNCHANGED << readings, hdd_data, fuel_rate, tank_capacity,
                    month, price_cache, published,
                    frame, stats, body,
                    monthly_stats, fetch_log, userdata, timeout, exit_status, handled >>

NextAnalysis ==
    \/ AnalyzeData
    \/ \E connected \in BOOLEAN : PublishToMqtt(connected)
    \/ InsufficientData
    \/ \E delay \in RunDelays : RunAgain(delay)

SpecAnalysis == InitAnalysis /\ [][NextAnalysis]_vars

(***************************************************************************)
(* Properties of the analysis run                                          *)
(***************************************************************************)
AnalysisRan == pc \in {"done", "exit"}

AnalysisDone == AnalysisRan /\ ~IsNone(result)

WeeklyReadings == get_readings_last_n_days(readings, now, DaysPerWeek)

NextMonth == IF month < 12 THEN month + 1 ELSE 1

\* the blended daily rate (ml/day) the run projected with
BlendedRate ==
    avg_daily_consumption_l(WeeklyReadings,
                            estimated_daily_hot_water_consumption(fuel_rate), NextMonth)

TodayHDD == IF DayOf(now) \in DOMAIN hdd_data THEN hdd_data[DayOf(now)] ELSE 0

\* C5: the reported average daily consumption is never below the reported
\* hot-water baseline, whichever branch computed it (measured week, fallback
\* for too few readings, refill inside the week, no consumption at all)
C5_RateAtLeastHotWater ==
    AnalysisDone =>
        /\ Get(result).avg_daily_consumption_l
               >= Get(result).estimated_daily_hot_water_consumption_l
        /\ BlendedRate >= estimated_daily_hot_water_consumption(fuel_rate)

\* a measured week that lost nothing, reported at the hot-water baseline
C5_Witness_MeasuredWeekBelowBaseline ==
    /\ AnalysisDone
    /\ Len(WeeklyReadings) >= MIN_WEEKLY_READINGS
    /\ WeeklyReadings[1].litres_remaining
           = WeeklyReadings[Len(WeeklyReadings)].litres_remaining
    /\ Get(result).estimated_daily_hot_water_consumption_l > 0
    /\ Get(result).avg_daily_consumption_l
           = Get(result).estimated_daily_hot_water_consumption_l

\* C6: a numeric estimated_days_remaining is at most 400 days when today's
\* heating degree days are non-zero and at most 700 days when they are zero
\* or there is no row for today
C6_DaysRemainingCapped ==
    (AnalysisDone /\ Get(result).estimated_days_remaining.kind = "number") =>
        /\ TodayHDD # 0 => Get(result).estimated_days_remaining.value <= CAP_WITH_HEATING * 10
        /\ TodayHDD = 0 => Get(result).estimated_days_remaining.value <= CAP_WITHOUT_HEATING * 10

\* a nearly idle boiler on a day with heating demand: the projection sits on
\* the 400-day ceiling
C6_Witness_CappedAt400 ==
    /\ AnalysisDone
    /\ TodayHDD > 0
    /\ BlendedRate = 1
    /\ Get(result).estimated_days_remaining
           = [kind |-> "number", value |-> CAP_WITH_HEATING * 10]

\* the same boiler with no HDD row for today: the 700-day ceiling
C6_Reach_CappedAt700 ==
    /\ AnalysisDone
    /\ DayOf(now) \notin DOMAIN hdd_data
    /\ BlendedRate = 1
    /\ Get(result).estimated_days_remaining
           = [kind |-> "number", value |-> CAP_WITHOUT_HEATING * 10]

\* the stored readings are ten, one a day, each 8 L below the one before, none
\* flagged as a refill, and hdd_data is empty
TenDailyReadingsNoRefill ==
    /\ Len(readings) = 10
    /\ \A i \in 1..10 : readings[i].refill_detected = "n"
    /\ \A i \in 1..9 :
          /\ readings[i + 1].date = readings[i].date + HoursPerDay
          /\ readings[i + 1].litres_remaining = readings[i].litres_remaining - 800
    /\ DOMAIN hdd_data = {}

\* C7: from ten daily readings falling 8 L a day, with no refill recorded and
\* no HDD data, the run yields a result whose daily rate is about 8 L/day
C7_TenDailyReadingsGiveMeasuredRate ==
    (AnalysisRan /\ TenDailyReadingsNoRefill) =>
        /\ ~IsNone(result)
        /\ Abs(Get(result).avg_daily_consumption_l - 800) <= 50

\* what the run does on that table: no result at all
C7_NoRefillRowNoResult ==
    (AnalysisRan /\ get_last_refill_reading(readings) = None) => IsNone(result)

\* the same ten readings with the first one flagged as the refill: fewer than
\* ten of them fall in the last seven days, so the rate is the modelled
\* fallback (the hot-water baseline), not the measured 8 L/day
C7_FlaggedFirstReadingGivesFallback ==
    (/\ AnalysisRan
     /\ Len(readings) = 10
     /\ readings[1].refill_detected = "y"
     /\ \A i \in 1..9 : readings[i + 1].date = readings[i].date + HoursPerDay) =>
        /\ Len(WeeklyReadings) < MIN_WEEKLY_READINGS
        /\ ~IsNone(result)
        /\ Get(result).avg_daily_consumption_l
               = Get(result).estimated_daily_hot_water_consumption_l

\* C10: with a non-positive blended rate the result carries "Unknown" for both
\* the days remaining and the empty date; with a positive rate both are
\* concrete values
C10_UnknownIffNoConsumption ==
    AnalysisDone =>
        /\ BlendedRate <= 0 =>
              /\ Get(result).estimated_days_remaining = [kind |-> "Unknown", value |-> 0]
              /\ Get(result).estimated_empty_date = [kind |-> "Unknown", value |-> 0]
        /\ BlendedRate > 0 =>
              /\ Get(result).estimated_days_remaining.kind = "number"
              /\ Get(result).estimated_empty_date.kind = "date"

\* a boiler that burns nothing over a week that lost nothing
C10_Witness_ZeroRate ==
    /\ AnalysisDone
    /\ BlendedRate = 0
    /\ Get(result).estimated_days_remaining.kind = "Unknown"

C10_Reach_PositiveRate ==
    /\ AnalysisDone
    /\ BlendedRate > 0
    /\ Get(result).estimated_empty_date.kind = "date"
    /\ Get(result).estimated_empty_date.value > DayOf(now)

(***************************************************************************)
(* Ingestion: the sanity clamp, configuration and costing                  *)
(***************************************************************************)
MAX_DAILY_CONSUMPTION_COLD == 5000     \* detection.max_daily_consumption_cold
MAX_DAILY_CONSUMPTION_WARM == 2000     \* detection.max_daily_consumption_warm
WARM_TEMPERATURE_THRESHOLD == 10       \* detection.warm_temperature_threshold

\* sanity_check of oil_recalc.py; no function of the repository calls it
sanity_check(current_volume, previous_volume, current_temp, current_time, previous_time) ==
    LET time_diff == current_time - previous_time
        max_daily_consumption ==
            IF current_temp > WARM_TEMPERATURE_THRESHOLD
            THEN MAX_DAILY_CONSUMPTION_WARM ELSE MAX_DAILY_CONSUMPTION_COLD
        \* max_daily_consumption * days_passed
        expected_max_consumption == (max_daily_consumption * time_diff) \div HoursPerDay
        actual_consumption == previous_volume - current_volume
    IN  IF current_volume > previous_volume + REFILL_THRESHOLD
        THEN [volume |-> current_volume, refill |-> "y"]
        ELSE IF actual_consumption * HoursPerDay > max_daily_consumption * time_diff
             THEN [volume |-> previous_volume - expected_max_consumption, refill |-> "n"]
             ELSE [volume |-> current_volume, refill |-> "n"]

\* the reading just classified fell further below the previous stored reading
\* than max_daily_consumption allows for the time that passed
DropBeyondDailyMaximum ==
    /\ Classified
    /\ Get(frame).current_date >= Get(Get(frame).prev_date)
    /\ LET max_daily_consumption ==
               IF LastOutput.temperature > WARM_TEMPERATURE_THRESHOLD
               THEN MAX_DAILY_CONSUMPTION_WARM ELSE MAX_DAILY_CONSUMPTION_COLD
       IN  (-VolumeIncrease) * HoursPerDay
               > max_daily_consumption * (Get(frame).current_date - Get(Get(frame).prev_date))

\* C11: when the drop from the previous stored reading exceeds
\* max_daily_consumption times the elapsed days, the litres_remaining the
\* ingestion path stores is previous.volume - max_daily_consumption * elapsed_days
C11_SanityClampStored ==
    DropBeyondDailyMaximum =>
        LastOutput.litres_remaining =
            Round1(sanity_check(Get(frame).current_litres, Get(Get(frame).prev_litres),
                                LastOutput.temperature, Get(frame).current_date,
                                Get(Get(frame).prev_date)).volume)

\* what the ingestion path stores: the computed volume, whatever the drop
C11_RawVolumeStored ==
    Classified =>
        LastOutput.litres_remaining =
            Round1(calculate_compensated_volume(LastOutput.air_gap_cm, LastOutput.temperature))

C11_Reach_DropBeyondDailyMaximum ==
    /\ DropBeyondDailyMaximum
    /\ Len(readings) > 1
    /\ readings[Len(readings)] = LastOutput

\* C15: a reading processed with no unit price available does not carry
\* cost_used / cost_to_fill as a zero amount
C15_NoPriceNoZeroCost ==
    \A o \in Outputs : IsNone(o.current_ppl) => (o.cost_used # 0 /\ o.cost_to_fill # 0)

\* with a price the costs are amounts computed from it
C15_Reach_PricedCostToFill ==
    \E o \in Outputs : ~IsNone(o.current_ppl) /\ o.cost_to_fill > 0

\* the weekly summary over a week whose readings all have a null current_ppl:
\* usage was measured, and the cost is reported as 0
C15_Reach_WeeklyCostZeroWithoutPrice ==
    /\ pc = "sent"
    /\ Len(CurrentWeek) >= 2
    /\ \A i \in 1..Len(CurrentWeek) : IsNone(CurrentWeek[i].current_ppl)
    /\ Get(stats).weekly_usage_l = Some(10000)
    /\ Get(stats).weekly_cost = Some(0)
    /\ Get(body).weekly_usage_line.cost_str = "cost"

\* C16: a reading with air_gap_cm <= 1 is given exactly the tank capacity,
\* at any temperature
C16_SmallAirGapIsFullTank ==
    \A o \in Outputs : o.air_gap_cm <= 1 => o.litres_remaining = TANK_CAPACITY

\* a 1 cm air gap is given the volume of 124 cm of oil
C16_Reach_OneCentimetreBelowFull ==
    \E o \in Outputs :
        /\ o.air_gap_cm = 1
        /\ o.temperature = REFERENCE_TEMP
        /\ o.litres_remaining = Round1(((HEIGHT - 1) * TANK_CAPACITY) \div HEIGHT)
        /\ o.litres_remaining < TANK_CAPACITY

\* a process() call that returned output, with or without a previous reading
Processed == ~IsNone(frame) /\ Len(published) > 0 /\ ~IsNone(published[Len(published)])

Elapsed == Get(frame).current_date - Get(Get(frame).prev_date)
ActualLoss == Get(Get(frame).prev_litres) - Get(frame).current_litres

\* C17: leak = 'y' exactly when there is a previous reading, at most one day
\* has passed since it, and the loss is both greater than leak_rate_per_day
\* times the elapsed days and at least leak_threshold; with no previous reading
\* or more than a day elapsed it is 'n' whatever the loss
C17_LeakExactlyWithinOneDay ==
    Processed =>
        IF IsNone(Get(frame).prev_litres)
        THEN LastOutput.leak_detected = "n"
        ELSE /\ LastOutput.leak_detected \in {"y", "n"}
             /\ LastOutput.leak_detected = "y" <=>
                   /\ Elapsed <= HoursPerDay
                   /\ ActualLoss * HoursPerDay > LEAK_RATE_PER_DAY * Elapsed
                   /\ ActualLoss >= LEAK_THRESHOLD

\* a loss beyond the threshold seen more than a day after the previous reading
C17_Witness_LargeLossAfterMoreThanADay ==
    /\ Classified
    /\ Elapsed > HoursPerDay
    /\ ActualLoss >= LEAK_THRESHOLD
    /\ ActualLoss * HoursPerDay > LEAK_RATE_PER_DAY * Elapsed
    /\ LastOutput.leak_detected = "n"

C17_Reach_LeakWithinADay ==
    /\ Classified
    /\ Elapsed >= 0
    /\ Elapsed <= HoursPerDay
    /\ LastOutput.air_gap_cm <= HEIGHT
    /\ LastOutput.leak_detected = "y"

\* exactly one day between the two readings is still evaluated
C17_Reach_LeakAfterExactlyOneDay ==
    /\ Classified
    /\ Elapsed = HoursPerDay
    /\ LastOutput.leak_detected = "y"

C17_Reach_LossBelowThreshold ==
    /\ Classified
    /\ Elapsed <= HoursPerDay
    /\ ActualLoss * HoursPerDay > LEAK_RATE_PER_DAY * Elapsed
    /\ ActualLoss < LEAK_THRESHOLD
    /\ LastOutput.leak_detected = "n"

\* tank.capacity as config.yaml may hold it: absent, 0, or the tank's capacity
Capacities == { None, Some(0), Some(TANK_CAPACITY) }

InitStartup ==
    /\ readings \in {<< >>} \cup { << r >> : r \in SeedRows }
    /\ hdd_data = << >>
    /\ now = 0
    /\ fuel_rate = 0
    /\ tank_capacity \in Capacities
    /\ month = 1
    /\ price_cache = [fetched |-> FALSE, value |-> None]
    /\ published = << >>
    /\ frame = None
    /\ pc = "import"
    /\ stats = None
    /\ body = None
    /\ result = None
    /\ monthly_stats = None
    /\ fetch_log = << >>
    /\ userdata = [one_shot |-> FALSE, message_received |-> FALSE]
    /\ timeout = 0
    /\ exit_status = None
    /\ handled = << >>

\* import of oil_recalc and main() of oil_mqtt_transform: TANK_CAPACITY is
\* whatever get_config_value returns, and nothing looks at it before the
\* client starts to listen
LoadConstants ==
    /\ pc = "import"
    /\ pc' = Idle
    /\ UNCHANGED << readings, hdd_data, now, fuel_rate, tank_capacity, month, price_cache,
                    published, frame, stats, body, result,
                    monthly_stats, fetch_log, userdata, timeout, exit_status, handled >>

\* on_message with the capacity the tank has
OnMessageConfigured(msg, site, db_ok) ==
    /\ pc = Idle
    /\ tank_capacity = Some(TANK_CAPACITY)
    /\ OnMessage(msg, site, db_ok)

\* on_message when tank.capacity is absent or 0. process() raises inside its
\* try block and returns None: with None at raw_volume = (oil_height / HEIGHT)
\* * TANK_CAPACITY, with 0 at percentage = (current_litres / TANK_CAPACITY) * 100,
\* after the volume (0) was computed and the previous reading was read.
\* on_message then publishes the None.
OnMessageInvalidCapacity(msg) ==
    /\ pc = Idle
    /\ tank_capacity # Some(TANK_CAPACITY)
    /\ Len(handled) < MaxMessages
    /\ frame' = Some([ raised_at |-> IF IsNone(tank_capacity)
                                     THEN "calculate_compensated_volume" ELSE "percentage",
                       current_date |-> msg.time,
                       current_air_gap |-> msg.depth_cm ])
    /\ published' = Append(published, None)
    /\ Handled("process_returned_none")
    /\ UNCHANGED << readings, hdd_data, now, fuel_rate, tank_capacity, month, price_cache,
                    pc, stats, body, result,
                    monthly_stats, fetch_log, timeout, exit_status >>

NextStartup ==
    \/ LoadConstants
    \/ \E msg \in Messages, site \in {None, Some(PriceTable)}, db_ok \in BOOLEAN :
            OnMessageConfigured(msg, site, db_ok)
    \/ \E msg \in Messages : OnMessageInvalidCapacity(msg)

SpecStartup == InitStartup /\ [][NextStartup]_vars

InvalidCapacity == IsNone(tank_capacity) \/ tank_capacity = Some(0)

\* C13: with tank.capacity 0 or missing the engine fails at start-up: it never
\* gets to listen for readings, and no reading reaches the percentage
\* computation of process()
C13_InvalidCapacityFailsAtStartup ==
    InvalidCapacity =>
        /\ pc \in {"import", "startup_error"}
        /\ published = << >>
        /\ frame = None

\* a reading is where capacity 0 is first met: at the percentage computation
C13_Reach_ZeroCapacityMetAtPercentage ==
    /\ tank_capacity = Some(0)
    /\ pc = Idle
    /\ ~IsNone(frame)
    /\ Get(frame).raised_at = "percentage"
    /\ published[Len(published)] = None

(***************************************************************************)
(* Analysis: recomputation, tagging, the blend and the heating component   *)
(***************************************************************************)
\* C12: two runs of analyze_data over the same stored readings, HDD table and
\* configuration report the same daily rate, the same heating estimate and the
\* same days remaining, whatever the wall-clock time of each run
C12_RecomputationDeterministic ==
    \A i \in 1..Len(published), j \in 1..Len(published) :
        /\ published[i].avg_daily_consumption_l = published[j].avg_daily_consumption_l
        /\ published[i].estimated_daily_heating_consumption_l
               = published[j].estimated_daily_heating_consumption_l
        /\ published[i].estimated_days_remaining = published[j].estimated_days_remaining

\* two runs at the same wall-clock time do agree
C12_SameClockSameResult ==
    \A i \in 1..Len(published), j \in 1..Len(published) :
        published[i].latest_analysis_date = published[j].latest_analysis_date
            => published[i] = published[j]

C12_Reach_TwoRunsPublished ==
    /\ Len(published) = 2
    /\ published[1].latest_analysis_date < published[2].latest_analysis_date

\* eleven readings twelve hours apart: the first run measures the week, the run
\* three days later finds fewer than ten readings in its week and falls back
C12_Reach_MeasuredThenFallback ==
    /\ Len(published) = 2
    /\ Len(readings) = 11
    /\ DOMAIN hdd_data = {}
    /\ published[1].avg_daily_consumption_l > published[2].avg_daily_consumption_l
    /\ published[2].avg_daily_consumption_l
           = published[2].estimated_daily_hot_water_consumption_l

\* the weekly-measured branch of analyze_data, as against the modelled fallback
MeasuredWeek == Len(WeeklyReadings) >= MIN_WEEKLY_READINGS

TagFields == {"method", "data_quality"}

\* C14: the result record carries a method / data-quality tag that tells a run
\* on the weekly-measured consumption from a run on the modelled fallback
C14_ResultCarriesMethodTag ==
    AnalysisDone => DOMAIN Get(result) \cap TagFields # {}

\* a measured run and a fallback run over the same tables, published with the
\* same fields, none of them a tag
C14_Reach_MeasuredAndFallbackSameFields ==
    /\ Len(published) = 2
    /\ Len(get_readings_last_n_days(readings, published[1].latest_analysis_date, DaysPerWeek))
           >= MIN_WEEKLY_READINGS
    /\ Len(get_readings_last_n_days(readings, published[2].latest_analysis_date, DaysPerWeek))
           < MIN_WEEKLY_READINGS
    /\ DOMAIN published[1] = DOMAIN published[2]
    /\ DOMAIN published[1] \cap TagFields = {}

HotWaterBaseline == estimated_daily_hot_water_consumption(fuel_rate)

AnalysisWindow ==
    analysis_window(Get(get_last_refill_reading(readings)), Get(get_latest_reading(readings)), now)

\* compute_usage_stats over the analysis window, as line 437 calls it
PeriodUsageStats ==
    compute_usage_stats(get_readings_for_period(readings, AnalysisWindow.analysis_start, now),
                        get_hdd_data(hdd_data, DayOf(AnalysisWindow.analysis_start), DayOf(now)),
                        HotWaterBaseline, REFILL_THRESHOLD)

AdjustedPeriodRate ==
    adjusted_period_rate(readings, hdd_data, now, AnalysisWindow, HotWaterBaseline)

\* C18: whenever the analysis window has total_days > 0, the daily rate the run
\* reports and projects with is max(adjusted_usage_total / total_days, hot-water
\* baseline)
C18_RateIsAdjustedPeriodRate ==
    (AnalysisDone /\ PeriodUsageStats.total_days > 0) =>
        /\ BlendedRate = Max(AdjustedPeriodRate, HotWaterBaseline)
        /\ Get(result).avg_daily_consumption_l
               = Round2(Max(AdjustedPeriodRate, HotWaterBaseline))

\* ten daily readings after a refill, 8 L a day: the window gives 8 L/day, the
\* run reports the hot-water baseline of the fallback
C18_Reach_PeriodRateNotReported ==
    /\ AnalysisDone
    /\ PeriodUsageStats.total_days > 0
    /\ ~MeasuredWeek
    /\ AdjustedPeriodRate = 8000
    /\ HotWaterBaseline < 8000
    /\ Get(result).avg_daily_consumption_l = Round2(HotWaterBaseline)

\* C19: the reported heating component is 0 when today's HDD is zero, and lies
\* within [MIN_HEATING_L, MAX_HEATING_L] whenever today's HDD is not zero
C19_HeatingComponentBand ==
    AnalysisDone =>
        /\ TodayHDD = 0 => Get(result).estimated_daily_heating_consumption_l = 0
        /\ TodayHDD # 0 =>
              /\ Get(result).estimated_daily_heating_consumption_l >= Round2(MIN_HEATING_L)
              /\ Get(result).estimated_daily_heating_consumption_l <= Round2(MAX_HEATING_L)

\* what does hold: zero on a zero-HDD day, and on a heating day either nothing
\* or a value inside the band
C19_HeatingZeroOrInBand ==
    AnalysisDone =>
        /\ TodayHDD = 0 => Get(result).estimated_daily_heating_consumption_l = 0
        /\ TodayHDD # 0 =>
              \/ Get(result).estimated_daily_heating_consumption_l = 0
              \/ /\ Get(result).estimated_daily_heating_consumption_l >= Round2(MIN_HEATING_L)
                 /\ Get(result).estimated_daily_heating_consumption_l <= Round2(MAX_HEATING_L)

C19_Reach_ClampedToMaximum ==
    /\ AnalysisDone
    /\ TodayHDD > 0
    /\ Get(result).estimated_daily_heating_consumption_l = Round2(MAX_HEATING_L)

C19_Reach_ScaledInsideBand ==
    /\ AnalysisDone
    /\ TodayHDD > 0
    /\ Get(result).estimated_daily_heating_consumption_l > Round2(MIN_HEATING_L)
    /\ Get(result).estimated_daily_heating_consumption_l < Round2(MAX_HEATING_L)

(***************************************************************************)
(* oil_analysis.py: calculate_smoothed_consumption_rate                    *)
(***************************************************************************)
EMA_ALPHA == 3                     \* analysis.ema_alpha, in tenths
MINIMUM_CONSUMPTION_RATE == 10     \* 0.01 L/day

\* temperature_compensated_volume
temperature_compensated_volume(volume, temperature) ==
    (volume * COEFF_SCALE)
        \div (COEFF_SCALE + THERMAL_EXPANSION_COEFF * (temperature - REFERENCE_TEMP))

comp_volume(r) == temperature_compensated_volume(r.litres_remaining, r.temperature)

\* the loop over consecutive pairs: the list daily_rates (ml/day) it ends with
RECURSIVE daily_rates_from(_, _, _)
daily_rates_from(rows, i, daily_rates) ==
    IF i > Len(rows) THEN daily_rates
    ELSE LET days == rows[i].date - rows[i - 1].date
             volume_diff == comp_volume(rows[i - 1]) - comp_volume(rows[i])
         IN  daily_rates_from(rows, i + 1,
                 IF days > 0
                 THEN IF volume_diff > 0
                      THEN Append(daily_rates, (volume_diff * 10 * HoursPerDay) \div days)
                      ELSE IF volume_diff < -REFILL_THRESHOLD THEN << >>
                      ELSE daily_rates
                 ELSE daily_rates)

\* ema = EMA_ALPHA * rate + (1 - EMA_ALPHA) * ema over daily_rates[1:]
RECURSIVE ema_from(_, _, _)
ema_from(daily_rates, i, ema) ==
    IF i > Len(daily_rates) THEN ema
    ELSE ema_from(daily_rates, i + 1, (EMA_ALPHA * daily_rates[i] + (10 - EMA_ALPHA) * ema) \div 10)

calculate_smoothed_consumption_rate(rows) ==
    IF Len(rows) < 2 THEN 0
    ELSE LET daily_rates == daily_rates_from(rows, 2, << >>)
         IN  IF Len(daily_rates) = 0 THEN 0
             ELSE Max(ema_from(daily_rates, 2, daily_rates[1]), MINIMUM_CONSUMPTION_RATE)

MaxWindow == 3                     \* readings in a window handed to the function

WindowRow(i, l, temp, f) == [Row((i - 1) * HoursPerDay, l, 30, f) EXCEPT !.temperature = temp]

\* windows of daily readings
WindowsOfLen(n) ==
    [1..n -> { [litres |-> l, temperature |-> temp, refill |-> f] :
                  l \in Litres, temp \in Temps, f \in {"y", "n"} }]

InitSmoothed ==
    /\ \E n \in 0..MaxWindow : \E w \in WindowsOfLen(n) :
          readings = [i \in 1..n |-> WindowRow(i, w[i].litres, w[i].temperature, w[i].refill)]
    /\ hdd_data = << >>
    /\ now = 0
    /\ fuel_rate = 0
    /\ tank_capacity = Some(TANK_CAPACITY)
    /\ month = 1
    /\ price_cache = [fetched |-> FALSE, value |-> None]
    /\ published = << >>
    /\ frame = None
    /\ pc = "start"
    /\ stats = None
    /\ body = None
    /\ result = None
    /\ monthly_stats = None
    /\ fetch_log = << >>
    /\ userdata = [one_shot |-> FALSE, message_received |-> FALSE]
    /\ timeout = 0
    /\ exit_status = None
    /\ handled = << >>

\* the function applied to the window
SmoothedRate ==
    /\ pc = "start"
    /\ result' = Some(calculate_smoothed_consumption_rate(readings))
    /\ pc' = "done"
    /\ UNCHANGED << readings, hdd_data, now, fuel_rate, tank_capacity, month, price_cache,
                    published, frame, stats, body,
                    monthly_stats, fetch_log, userdata, timeout, exit_status, handled >>

NextSmoothed == SmoothedRate

SpecSmoothed == InitSmoothed /\ [][NextSmoothed]_vars

\* the pair ending at reading k looks like a refill: the (compensated) volume
\* rose by at least refill_threshold, or reading k is flagged
LooksLikeRefill(rows, k) ==
    \/ comp_volume(rows[k]) - comp_volume(rows[k - 1]) >= REFILL_THRESHOLD
    \/ rows[k].refill_detected = "y"

\* C20: the running rates are reset at every pair that looks like a refill
\* (a rise of refill_threshold or more, or an explicit refill flag): the
\* returned rate is the rate of the readings from that pair's later reading on
C20_RatesResetAtRefill ==
    pc = "done" =>
        \A k \in 2..Len(readings) :
            LooksLikeRefill(readings, k) =>
                Get(result) = calculate_smoothed_consumption_rate(
                                  SubSeq(readings, k, Len(readings)))

\* what the loop does: it resets only at a rise beyond refill_threshold
C20_RatesResetBeyondThreshold ==
    pc = "done" =>
        \A k \in 2..Len(readings) :
            comp_volume(readings[k]) - comp_volume(readings[k - 1]) > REFILL_THRESHOLD =>
                Get(result) = calculate_smoothed_consumption_rate(
                                  SubSeq(readings, k, Len(readings)))

\* a 100 L drop, then a rise of exactly refill_threshold: the rate of the drop
\* is returned
C20_Reach_ExactThresholdKeepsRates ==
    /\ pc = "done"
    /\ Len(readings) = 3
    /\ \A i \in 1..3 : readings[i].temperature = REFERENCE_TEMP /\ readings[i].refill_detected = "n"
    /\ readings[2].litres_remaining = readings[1].litres_remaining - 10000
    /\ readings[3].litres_remaining = readings[2].litres_remaining + REFILL_THRESHOLD
    /\ Get(result) = 100000

\* a drop, then a flagged reading that rose by less than the threshold
C20_Reach_FlagKeepsRates ==
    /\ pc = "done"
    /\ Len(readings) = 3
    /\ readings[3].refill_detected = "y"
    /\ comp_volume(readings[3]) - comp_volume(readings[2]) < REFILL_THRESHOLD
    /\ comp_volume(readings[2]) < comp_volume(readings[1])
    /\ Get(result) > 0

\* the list daily_rates the loop ends with
DailyRates == daily_rates_from(readings, 2, << >>)

\* C21: the rate calculate_smoothed_consumption_rate returns is never below
\* MINIMUM_CONSUMPTION_RATE, for any window: windows of fewer than 2 readings
\* and windows in which no pair is a decrease included
C21_RateAtLeastMinimum ==
    pc = "done" => Get(result) >= MINIMUM_CONSUMPTION_RATE

\* what the code does: the floor is applied on the path that computed an EMA only
C21_FloorOnlyWhenRatesExist ==
    pc = "done" =>
        /\ (Len(readings) >= 2 /\ Len(DailyRates) > 0) => Get(result) >= MINIMUM_CONSUMPTION_RATE
        /\ (Len(readings) < 2 \/ Len(DailyRates) = 0) => Get(result) = 0

\* a window of one reading: 0 is returned
C21_Reach_SingleReadingGivesZero ==
    pc = "done" /\ Len(readings) = 1 /\ Get(result) = 0

\* a window of readings that never decrease: 0 is returned
C21_Reach_NoDecreaseGivesZero ==
    /\ pc = "done"
    /\ Len(readings) = 3
    /\ \A i \in 2..3 : comp_volume(readings[i]) >= comp_volume(readings[i - 1])
    /\ Get(result) = 0

(***************************************************************************)
(* Analysis: the fallback order of the estimator                           *)
(***************************************************************************)
HISTORICAL_REFILLS == 5            \* LIMIT 5 of significant_refills

\* the query of get_historical_consumption. consecutive_readings: the rows
\* flagged 'y' in date order, each with the flagged row before it (LAG);
\* significant_refills: those whose litres_remaining rose by the threshold or
\* more over the flagged row before, the latest HISTORICAL_REFILLS of them; the
\* result: AVG((prev_litres - litres_remaining) / days between) in ml/day, NULL
\* (None) when no row is left. A pair on equal dates divides by zero, which
\* SQLite gives as NULL and AVG leaves out.
historical_query(table, threshold) ==
    LET flagged == SortByDate(SelectSeq(table, LAMBDA r : r.refill_detected = "y"))
        significant == { k \in 2..Len(flagged) :
                            flagged[k].litres_remaining - flagged[k - 1].litres_remaining
                                >= threshold }
        limited == { k \in significant :
                        Cardinality({ j \in significant : j > k }) < HISTORICAL_REFILLS }
        averaged == { k \in limited : flagged[k].date > flagged[k - 1].date }
        term(k) == ((flagged[k - 1].litres_remaining - flagged[k].litres_remaining)
                       * 10 * HoursPerDay) \div (flagged[k].date - flagged[k - 1].date)
        terms == [k \in averaged |-> term(k)]
    IN  IF averaged = {} THEN None
        ELSE Some(SumHdd(terms, averaged) \div Cardinality(averaged))

\* get_historical_consumption: c.execute is handed the statement, which holds
\* one '?', and no parameters, so sqlite3 raises ProgrammingError before any
\* row is read; with the parameter bound it would return the average, or 0
get_historical_consumption(table) ==
    LET placeholders == 1
        parameters == 0
        avg_daily == historical_query(table, REFILL_THRESHOLD)
    IN  IF parameters # placeholders THEN [kind |-> "ProgrammingError", value |-> 0]
        ELSE [kind |-> "number", value |-> IF IsNone(avg_daily) THEN 0 ELSE Get(avg_daily)]

\* lines 457-472: the estimator that gave adjusted_daily_consumption the value
\* analyze_data reports: the consumption of the last 7 days' readings, or
\* the hot-water baseline scaled by the seasonal factor. No other branch exists
\* and get_historical_consumption is called nowhere.
rate_source(weekly_readings) ==
    IF Len(weekly_readings) >= MIN_WEEKLY_READINGS THEN "weekly_readings"
    ELSE "hot_water_baseline"

\* the stored readings hold a significant refill cycle to average over
HistoricalAvailable == ~IsNone(historical_query(readings, REFILL_THRESHOLD))

NoAdjustedPeriodRate == PeriodUsageStats.total_days = 0

\* C22: when the analysis window gives no adjusted-period rate, the rate
\* analyze_data reports comes from the historical refill-cycle average if the
\* stored refills give one, and from the hot-water baseline only when they give
\* none
C22_FallbackOrder ==
    (AnalysisDone /\ NoAdjustedPeriodRate) =>
        /\ HistoricalAvailable => rate_source(WeeklyReadings) = "historical_refill_cycles"
        /\ rate_source(WeeklyReadings) = "hot_water_baseline" => ~HistoricalAvailable

\* what the code does: without ten readings in the last week the reported rate
\* is the hot-water baseline, whatever the stored refill cycles are
C22_FallbackIsHotWaterBaseline ==
    (AnalysisDone /\ ~MeasuredWeek) =>
        /\ rate_source(WeeklyReadings) = "hot_water_baseline"
        /\ Get(result).avg_daily_consumption_l = Round2(HotWaterBaseline)

\* a run right after the second refill of a stored cycle: no adjusted-period
\* rate, a refill cycle to average over, and the hot-water baseline reported
C22_Reach_CycleStoredBaselineReported ==
    /\ AnalysisDone
    /\ NoAdjustedPeriodRate
    /\ HistoricalAvailable
    /\ HotWaterBaseline > 0
    /\ Get(result).avg_daily_consumption_l = Round2(HotWaterBaseline)
    /\ get_historical_consumption(readings).kind = "ProgrammingError"

\* no adjusted-period rate and no refill cycle either
C22_Reach_NoCycleBaselineReported ==
    /\ AnalysisDone
    /\ NoAdjustedPeriodRate
    /\ ~HistoricalAvailable
    /\ rate_source(WeeklyReadings) = "hot_water_baseline"

(***************************************************************************)
(* Ingestion: ordering, the classifier's labels, failure and the price     *)
(***************************************************************************)
\* C23: a reading dated before the latest stored reading is rejected: it is not
\* classified against the stored reading, not stored and not published, so the
\* readings table only ever grows in non-decreasing timestamp order
C23_OutOfOrderRejected ==
    /\ \A i \in 2..Len(readings) : readings[i - 1].date <= readings[i].date
    /\ Classified => Get(frame).current_date >= Get(Get(frame).prev_date)

\* what the code does: every payload process() accepts is classified against
\* the latest stored row, and stored when the insert succeeds, whatever its time
C23_EveryAcceptedReadingPublished ==
    [][\A msg \in Messages, site \in {None, Some(PriceTable)} :
          OnMessage(msg, site, TRUE) =>
              /\ Len(readings') = Len(readings) + 1
              /\ readings'[Len(readings')].date = msg.time
              /\ published'[Len(published')] = Some(readings'[Len(readings')])]_vars

\* a reading dated a day before the stored one: classified with a negative
\* elapsed time, stored after it and published
C23_Reach_EarlierReadingStored ==
    /\ Classified
    /\ Len(readings) >= 2
    /\ readings[Len(readings)].date < readings[Len(readings) - 1].date
    /\ Get(frame).current_date - Get(Get(frame).prev_date) = -24
    /\ LastOutput = readings[Len(readings)]

(***************************************************************************)
(* Notifier: the monthly summary                                           *)
(***************************************************************************)
MonthlyDone == pc \in {"monthly", "sent"} /\ ~IsNone(monthly_stats)

\* the rows get_monthly_summary read: last month's
LastMonth ==
    fetch_readings_between(readings, (MonthStart(now) - DaysPerMonth) * HoursPerDay,
                           MonthStart(now) * HoursPerDay - 1)

\* C24: for every month window of at least 2 readings, the total_usage of
\* get_monthly_summary equals the usage_litres calculate_refill_aware_usage
\* returns for the same readings and refill_threshold
C24_MonthlyUsageIsAggregatorUsage ==
    (MonthlyDone /\ Len(LastMonth) >= 2) =>
        Some(Get(monthly_stats).total_usage)
            = calculate_refill_aware_usage(LastMonth, REFILL_THRESHOLD).usage_litres

\* the two agree on windows the aggregator finds no refill in
C24_AgreeWithoutRefill ==
    (MonthlyDone /\ Len(LastMonth) >= 2
       /\ ~calculate_refill_aware_usage(LastMonth, REFILL_THRESHOLD).had_refill) =>
        Some(Get(monthly_stats).total_usage)
            = calculate_refill_aware_usage(LastMonth, REFILL_THRESHOLD).usage_litres

\* 900 L, a refill to 1000 L, a rise of 10 L, a drop back to 900 L: the
\* aggregator counts the 110 L drop, the monthly summary nets the small rise off
\* and reports 100 L
C24_Reach_SmallRiseReducesMonthlyUsage ==
    /\ MonthlyDone
    /\ Len(LastMonth) = 4
    /\ \A i \in 1..4 : LastMonth[i].refill_detected = "n"
    /\ LastMonth[1].litres_remaining = 90000
    /\ LastMonth[2].litres_remaining = 100000
    /\ LastMonth[3].litres_remaining = 101000
    /\ LastMonth[4].litres_remaining = 90000
    /\ Get(monthly_stats).total_usage = 10000
    /\ calculate_refill_aware_usage(LastMonth, REFILL_THRESHOLD).usage_litres = Some(11000)

\* a reading flagged as a refill although the volume fell: the aggregator
\* leaves the pair out, the monthly summary counts its drop
C24_Reach_FlaggedDropCounted ==
    /\ MonthlyDone
    /\ Len(LastMonth) = 2
    /\ LastMonth[2].refill_detected = "y"
    /\ LastMonth[1].litres_remaining = 100000
    /\ LastMonth[2].litres_remaining = 90000
    /\ Get(monthly_stats).total_usage = 10000
    /\ calculate_refill_aware_usage(LastMonth, REFILL_THRESHOLD).usage_litres = Some(0)

\* C25: no reading is labelled both refill and leak: refill_detected = 'y'
\* implies leak_detected = 'n' for every pair process() classifies
C25_NeverRefillAndLeak ==
    \A o \in Outputs : o.refill_detected = "y" => o.leak_detected = "n"

\* a refill seen within a day of the previous reading, where detect_leak does
\* compare the change with the leak thresholds
C25_Witness_RefillWithinADay ==
    /\ Classified
    /\ Elapsed >= 0 /\ Elapsed <= HoursPerDay
    /\ VolumeIncrease >= LEAK_THRESHOLD
    /\ LastOutput.refill_detected = "y"
    /\ LastOutput.leak_detected = "n"

C25_Reach_LeakNotRefill ==
    /\ Classified
    /\ LastOutput.leak_detected = "y"
    /\ LastOutput.refill_detected = "n"

\* C26: when process() returns None, on_message publishes nothing on the level
\* topic: every publish on the topic carries a processed reading, and the last
\* reading published stays the retained value
C26_FailurePublishesNothing ==
    /\ \A i \in 1..Len(published) : ~IsNone(published[i])
    /\ Len(published) = Cardinality({ i \in 1..Len(handled) : handled[i] = "processed" })

\* what the code does: one publish for every message process() was called for
C26_PublishPerProcessCall ==
    Len(published) = Cardinality({ i \in 1..Len(handled) : handled[i] # "raised" })

\* a reading was published, then a message failed in process(): the retained
\* value is the None published after it
C26_Reach_RetainedReadingReplaced ==
    /\ Len(published) = 2
    /\ ~IsNone(published[1])
    /\ IsNone(published[2])
    /\ handled = << "processed", "process_returned_none" >>

\* C27: every reading on_message publishes on the level topic has first been
\* committed to the readings table, so the published and the stored series
\* never diverge
C27_PublishedImpliesStored ==
    \A o \in Outputs : \E i \in 1..Len(readings) : readings[i] = o

\* what the code does: a stored reading of this run was published; the
\* converse fails when the insert raises
C27_StoredImpliesPublished ==
    \A i \in 1..Len(readings) : readings[i] \in SeedRows \/ readings[i] \in Outputs

\* the insert failed, the reading was published and the next reading was
\* classified against the row stored before it
C27_Reach_PublishedNotStored ==
    /\ Len(published) = 2
    /\ ~IsNone(published[1]) /\ ~IsNone(published[2])
    /\ Len(readings) = 1
    /\ readings[1] \in SeedRows
    /\ Get(Get(frame).prev_date) = readings[1].date
    /\ Get(published[1]).date > readings[1].date

(***************************************************************************)
(* oil_mqtt_transform.py: one-shot mode                                    *)
(***************************************************************************)
MaxWait == 2                       \* DEFAULT_TIMEOUT: seconds the wait loop of the model runs for

InitOneShot ==
    /\ readings \in {<< >>} \cup { << r >> : r \in SeedRows }
    /\ hdd_data = << >>
    /\ now = 0
    /\ fuel_rate = 0
    /\ tank_capacity = Some(TANK_CAPACITY)
    /\ month = 1
    /\ price_cache = [fetched |-> FALSE, value |-> None]
    /\ published = << >>
    /\ frame = None
    /\ pc = "connect"
    /\ stats = None
    /\ body = None
    /\ result = None
    /\ monthly_stats = None
    /\ fetch_log = << >>
    /\ userdata = [one_shot |-> TRUE, message_received |-> FALSE]
    /\ timeout = MaxWait
    /\ exit_status = None
    /\ handled = << >>

\* main: client.connect(...); client.loop_start(). A connect that raises is
\* caught by the except clause of main: sys.exit(1)
Connect(ok) ==
    /\ pc = "connect"
    /\ pc' = IF ok THEN "waiting" ELSE "exited"
    /\ exit_status' = IF ok THEN None ELSE Some(1)
    /\ UNCHANGED << readings, hdd_data, now, fuel_rate, tank_capacity, month, price_cache,
                    published, frame, stats, body, result,
                    monthly_stats, fetch_log, userdata, timeout, handled >>

\* one evaluation of the loop condition 'timeout > 0 and client.is_connected()
\* and not message_received', and the body (sleep a second, timeout -= 1) when
\* it holds
WaitLoop(is_connected) ==
    /\ pc = "waiting"
    /\ IF timeout > 0 /\ is_connected /\ ~userdata.message_received
       THEN timeout' = timeout - 1 /\ pc' = pc
       ELSE timeout' = timeout /\ pc' = "stopping"
    /\ UNCHANGED << readings, hdd_data, now, fuel_rate, tank_capacity, month, price_cache,
                    published, frame, stats, body, result,
                    monthly_stats, fetch_log, userdata, exit_status, handled >>

\* client.loop_stop() and the exit: 1 at timeout == 0, 0 ("Message received and
\* processed successfully") when message_received is set, 1 otherwise
ExitOneShot ==
    /\ pc = "stopping"
    /\ exit_status' = Some(IF timeout = 0 THEN 1
                           ELSE IF userdata.message_received THEN 0 ELSE 1)
    /\ pc' = "exited"
    /\ UNCHANGED << readings, hdd_data, now, fuel_rate, tank_capacity, month, price_cache,
                    published, frame, stats, body, result,
                    monthly_stats, fetch_log, userdata, timeout, handled >>

NextOneShot ==
    \/ \E ok \in BOOLEAN : Connect(ok)
    \/ \E is_connected \in BOOLEAN : WaitLoop(is_connected)
    \/ ExitOneShot
    \/ NextIngest

SpecOneShot == InitOneShot /\ [][NextOneShot]_vars

\* C28: in one-shot mode the process exits with status 0 only if a message was
\* received and processed without error before the timeout expired: a message
\* whose handling raised, or whose processing returned None, never leads to
\* the exit reported as processed successfully
C28_ExitZeroOnlyAfterProcessedMessage ==
    exit_status = Some(0) =>
        /\ timeout > 0
        /\ \E i \in 1..Len(handled) : handled[i] = "processed"

\* what the code does: status 0 exactly when message_received was set and the
\* timeout had not run out, however the handler ended
C28_ExitZeroIffFlagBeforeTimeout ==
    pc = "exited" =>
        (exit_status = Some(0) <=> (timeout > 0 /\ userdata.message_received))

\* the one message received could not be decoded: status 0
C28_Reach_ExitZeroAfterRaise ==
    /\ exit_status = Some(0)
    /\ handled = << "raised" >>
    /\ published = << >>

\* process() returned None for the one message received: status 0
C28_Reach_ExitZeroAfterProcessFailure ==
    /\ exit_status = Some(0)
    /\ handled = << "process_returned_none" >>
    /\ published = << None >>

C28_Reach_ExitZeroAfterProcessedMessage ==
    /\ exit_status = Some(0)
    /\ handled = << "processed" >>

(***************************************************************************)
(* Ingestion: the unit price within one process                            *)
(***************************************************************************)
ReturnedFetches == { i \in 1..Len(fetch_log) : fetch_log[i] # "raised" }

\* every published reading carries a price computed from the cached result, or
\* no price when the cached result is None
PriceFromCache ==
    \A o \in Outputs : IsNone(o.current_ppl) <=> IsNone(price_cache.value)

\* C30: within one ingestion process the price site is asked at most once:
\* every reading after the first reuses the result of that first fetch_ppl call
C30_PriceFetchedAtMostOnce ==
    /\ Len(fetch_log) <= 1
    /\ PriceFromCache

\* what the code does: at most one fetch_ppl call returns, no call is made
\* after it, and every reading published carries the price of that one result
\* (none when it was None); the calls that raised came before it
C30_OneReturnedFetchReused ==
    /\ Cardinality(ReturnedFetches) <= 1
    /\ \A i \in ReturnedFetches : i = Len(fetch_log)
    /\ price_cache.fetched <=> ReturnedFetches # {}
    /\ PriceFromCache

\* the first fetch returned None: both readings of the process carry no price
C30_Reach_FailedFetchReused ==
    /\ fetch_log = << "none" >>
    /\ Cardinality({ i \in 1..Len(published) : ~IsNone(published[i]) }) = 2
    /\ \A o \in Outputs : IsNone(o.current_ppl)

\* the first call raised, the call of the next message returned a price table
C30_Reach_FetchedAgainAfterRaise ==
    /\ fetch_log = << "raised", "prices" >>
    /\ published[1] = None
    /\ ~IsNone(published[2])
    /\ ~IsNone(Get(published[2]).current_ppl)

(***************************************************************************)
(* oil_analysis.py: compute_usage_stats on its own                         *)
(***************************************************************************)
MaxStatsRows == 4                  \* readings in a sequence handed to compute_usage_stats

StatsLitres == {99000, 100000, 110000}
StatsGaps == {-24, 0, 24}          \* hours from a reading to the next one of the sequence
StatsFuelRates == {0, 2000, 30000} \* fuel rates giving daily_hw_l = 0, 1.57 and 23.57 L/day
StatsHddTables ==
    { << >>, [d \in {1, 2} |-> 120], [d \in {1, 2} |-> IF d = 1 THEN 120 ELSE 0] }

\* the sequence with the given litres and gaps; the first reading is on day 1
RECURSIVE StatsRows(_, _)
StatsRows(litres, gaps) ==
    IF Len(litres) = 0 THEN << >>
    ELSE LET before == StatsRows(SubSeq(litres, 1, Len(litres) - 1),
                                 SubSeq(gaps, 1, Len(gaps) - 1))
             date == IF Len(before) = 0 THEN HoursPerDay
                     ELSE before[Len(before)].date + gaps[Len(gaps)]
         IN  Append(before, Row(date, litres[Len(litres)], 30, "n"))

InitUsageStats ==
    /\ \E n \in 0..MaxStatsRows :
         \E litres \in [1..n -> StatsLitres], gaps \in [1..n -> StatsGaps] :
            /\ (n > 0 => gaps[1] = 0)
            /\ readings = StatsRows(litres, gaps)
    /\ hdd_data \in StatsHddTables
    /\ now = 0
    /\ fuel_rate \in StatsFuelRates
    /\ tank_capacity = Some(TANK_CAPACITY)
    /\ month = 1
    /\ price_cache = [fetched |-> FALSE, value |-> None]
    /\ published = << >>
    /\ frame = None
    /\ pc = "start"
    /\ stats = None
    /\ body = None
    /\ result = None
    /\ monthly_stats = None
    /\ fetch_log = << >>
    /\ userdata = [one_shot |-> FALSE, message_received |-> FALSE]
    /\ timeout = 0
    /\ exit_status = None
    /\ handled = << >>

\* the function applied to the sequence
ComputeUsageStats ==
    /\ pc = "start"
    /\ result' = Some(compute_usage_stats(readings, hdd_data,
                          estimated_daily_hot_water_consumption(fuel_rate), REFILL_THRESHOLD))
    /\ pc' = "done"
    /\ UNCHANGED << readings, hdd_data, now, fuel_rate, tank_capacity, month, price_cache,
                    published, frame, stats, body,
                    monthly_stats, fetch_log, userdata, timeout, exit_status, handled >>

NextUsageStats == ComputeUsageStats

SpecUsageStats == InitUsageStats /\ [][NextUsageStats]_vars

\* the accumulators after the pairs of the first k readings
StatsAfter(k) ==
    compute_usage_stats(SubSeq(readings, 1, k), hdd_data,
                        estimated_daily_hot_water_consumption(fuel_rate), REFILL_THRESHOLD)

\* pair (k-1, k) has a non-positive decrease or a non-positive elapsed time
SkippedPair(k) ==
    \/ readings[k - 1].litres_remaining - readings[k].litres_remaining <= 0
    \/ readings[k].date - readings[k - 1].date <= 0

\* C29: for every reading sequence and daily_hw_l >= 0 the accumulators of
\* compute_usage_stats satisfy total_days = heat_day_count + hw_day_count,
\* 0 <= heating_usage_total <= adjusted_usage_total and adjusted_usage_total
\* >= daily_hw_l * hw_day_count, and a pair with a non-positive decrease or a
\* non-positive elapsed time changes none of them
C29_AccumulatorsConsistent ==
    pc = "done" =>
        LET st == Get(result)
            daily_hw_l == estimated_daily_hot_water_consumption(fuel_rate)
        IN  /\ st.total_days = st.heat_day_count + st.hw_day_count
            /\ 0 <= st.heating_usage_total
            /\ st.heating_usage_total <= st.adjusted_usage_total
            /\ st.adjusted_usage_total >= daily_hw_l * st.hw_day_count
            /\ \A k \in 2..Len(readings) : SkippedPair(k) => StatsAfter(k) = StatsAfter(k - 1)

\* a zero-HDD day on which the hot-water floor exceeds the measured use, a
\* heating day and a skipped pair in one sequence
C29_Witness_FloorHeatingAndSkippedPair ==
    /\ pc = "done"
    /\ Len(readings) = 4
    /\ \E k \in 2..4 : SkippedPair(k)
    /\ Get(result).hw_day_count > 0
    /\ Get(result).heat_day_count > 0
    /\ Get(result).heating_usage_total > 0
    /\ Get(result).adjusted_usage_total
           > Get(result).heating_usage_total
               + HoursPerDay * 10 * (readings[1].litres_remaining - readings[4].litres_remaining)

=============================================================================
